---- MODULE Spec2Model ----
(***************************************************************************)
(* Model of the skillq-app recruiting assistant.                           *)
(*                                                                         *)
(*   SpecRisk  ResumeProcessor.calculate_risk_score                        *)
(*             (src/backend/resume_processor.py)                           *)
(*   SpecGen   OpenAIClient.generate_outreach, one attempt per step        *)
(*             (src/backend/openai_client.py)                              *)
(*   SpecPII   PIIProcessor.anonymize_text / extract_pii, one recognizer   *)
(*             result per step (src/backend/pii_processor.py)              *)
(*   SpecMatch the candidate matcher of refine_search_candidates           *)
(*             (src/pages/chat.py)                                         *)
(*   SpecIngest                                                            *)
(*             ResumeProcessor.process_resume_content, one pipeline stage  *)
(*             per step (src/backend/resume_processor.py)                  *)
(*   SpecUpload                                                            *)
(*             process_single_upload and process_bulk_upload               *)
(*             (src/pages/upload.py)                                       *)
(*   SpecCache the two-tier resume cache of SupabaseClient                 *)
(*             (src/backend/supabase_client.py)                            *)
(*   Spec      one recruiter session of the chat page: search, ranking,    *)
(*             outreach generation with its caches and its rate limiter    *)
(*             (src/pages/chat.py)                                         *)
(*                                                                         *)
(* Python values are modelled as follows.  A string that the code only     *)
(* tests for truthiness is a TLA+ string, "" standing for None / absent /  *)
(* empty (all falsy).  A list of which the code reads only len() is its    *)
(* length.  A list whose entries are read is a sequence.  A text that is   *)
(* searched or rewritten is a sequence of one-character strings, <<>>      *)
(* standing for None.                                                      *)
(***************************************************************************)
EXTENDS Integers, Sequences, FiniteSets, TLC

VARIABLES
    \* ---- calculate_risk_score -------------------------------------------
    risk_pc,        \* "input" | "scored" | "compared"
    parsed_data,    \* the profile handed to calculate_risk_score
    risk_result,    \* (risk_score, issues) returned for parsed_data
    dup_data,       \* parsed_data with one duplicated previous_job_titles entry
    dup_result,     \* (risk_score, issues) returned for dup_data
    \* ---- OpenAIClient.generate_outreach ----------------------------------
    gen_pc,         \* "idle" | "running" | "responded" | "returned" | "raised"
    gen_candidate,  \* the candidate argument
    gen_query,      \* the original_query argument
    gen_attempt,    \* the loop variable attempt (0-based) of the next attempt
    gen_calls,      \* external chat-completion calls made so far
    gen_last,       \* outcome of the last external call
    gen_result,     \* the value returned
    gen_slept,      \* seconds spent in time.sleep
    \* ---- PIIProcessor.anonymize_text -------------------------------------
    pii_pc,         \* "start" | "loop" | "done"
    text,           \* the text argument
    n_results,      \* recognizer results processed by the loop of extract_pii
    pii_data,       \* pii_data of extract_pii, then the record returned
    detected_names, \* detected_names of extract_pii
    anonymized_text, \* the text returned by anonymize_text
    \* ---- the chat page (src/pages/chat.py) ------------------------------
    now,                \* time.time(), in seconds
    user_id,            \* st.session_state.user_id
    search_results,     \* st.session_state.search_results
    last_query,         \* st.session_state.last_query
    current_filters,    \* st.session_state.current_filters
    outreach_count,     \* st.session_state.outreach_count
    last_outreach_time, \* st.session_state.last_outreach_time
    outreach_shown,     \* candidates whose st.session_state[outreach_key] is set
    can_generate_cache, \* st.cache_data entries of can_generate_outreach
    message_cache,      \* st.cache_data entries of generate_outreach_message
    lookup_cache,       \* st.cache_data entries of get_cached_outreach
    store_cache,        \* st.cache_data entries of cache_outreach_message
    outreach_cache,     \* rows of the outreach_cache table
    llm_requests,       \* the prompts the LLM service answered in the last interaction
    admitted,           \* history: per candidate, when a request passed the limiter
    requests,           \* history: number of outreach button presses handled
    searches,           \* history: number of searches run
    last_request,       \* history: how the last button press was served
    \* ---- refine_search_candidates, the matcher -------------------------
    match_pc,           \* "off" | "input" | "matched" | "done"
    match_filters,      \* current_filters after `current_filters = new_filters`
    match_row,          \* the row of the resumes table
    matched_ids,        \* matched_ids
    final_candidates,   \* final_candidates: the ids returned
    \* ---- process_resume_content --------------------------------------
    ing_pc,  \* "off" | "start" | "extracted" | "anonymized" | "parsed" | "built" | "returned" | "failed"
    file_name,  \* the file_name argument
    file_readable,  \* whether read_pdf / read_docx can read file_content
    file_document,  \* the page or paragraph texts in file_content
    ing_text,  \* text of process_resume_content
    ing_pii_data,  \* pii_data returned by anonymize_text
    parse_outcome,  \* history: how the call of parse_resume ended
    structured_data,  \* structured_data
    ing_parsed_data,  \* parsed_data of process_resume_content
    ing_risk,  \* (risk_score, issues) of process_resume_content
    ing_error,  \* the exception process_resume_content raised
    anonymize_calls,  \* calls of anonymize_text
    llm_calls,  \* chat-completion and generate_text calls
    resumes,  \* rows inserted into the resumes table
    resumes_pii_rows, \* rows inserted into the resumes_pii table
    \* ---- the upload page (src/pages/upload.py) -----------------------
    up_pc,  \* "off" | "pressed" | "returned" | "raised"
    upload_mode,  \* "single" | "bulk": the button pressed
    uploaded_files,  \* uploaded_files (for "single": the one uploaded_file)
    upload_results,  \* results returned by process_bulk_upload
    upload_result,  \* bool(result) of process_single_upload
    upload_error,  \* the exception that left the function
    process_calls, \* calls of process_resume_content
    \* ---- the resume cache of SupabaseClient --------------------------
    cache_pc,  \* "off" | "on"
    local_cache,  \* self._local_cache
    resume_cache,  \* the resume_cache table: file_hash -> data
    client_cached,  \* history: per file_hash, the data of the last cache_resume_data of this client
    cache_call, \* history: the last call and what it did
    \* ---- extract_pii over recognizer results -------------------------
    sp_pc,  \* "off" | "loop" | "done"
    sp_text,  \* the text extract_pii is called on
    sp_results,  \* the recognizer results the loop has processed, in the recognizer's order
    sp_pii_data,  \* pii_data of extract_pii
    sp_detected_names, \* detected_names of extract_pii
    \* ---- the outreach cache of SupabaseClient ------------------------
    oc_pc,  \* "off" | "on"
    oc_now,  \* datetime.now(timezone.utc), in days
    outreach_cache_table,  \* the outreach_cache table: (candidate_id, query_hash) -> row
    oc_call  \* history: the last call and what it returned

riskVars == <<risk_pc, parsed_data, risk_result, dup_data, dup_result>>

genVars == <<gen_pc, gen_candidate, gen_query, gen_attempt, gen_calls, gen_last, gen_result, gen_slept>>

piiVars == <<pii_pc, text, n_results, pii_data, detected_names, anonymized_text>>

chatVars ==
    <<now, user_id, search_results, last_query, current_filters, outreach_count,
      last_outreach_time, outreach_shown, can_generate_cache, message_cache,
      lookup_cache, store_cache, outreach_cache, llm_requests, admitted,
      requests, searches, last_request>>

matchVars == <<match_pc, match_filters, match_row, matched_ids, final_candidates>>

ingestVars ==
    <<ing_pc,
      file_name,
      file_readable,
      file_document,
      ing_text,
      ing_pii_data,
      parse_outcome,
      structured_data,
      ing_parsed_data,
      ing_risk,
      ing_error,
      anonymize_calls,
      llm_calls,
      resumes,
      resumes_pii_rows>>

uploadVars ==
    <<up_pc,
      upload_mode,
      uploaded_files,
      upload_results,
      upload_result,
      upload_error,
      process_calls>>

cacheVars == <<cache_pc, local_cache, resume_cache, client_cached, cache_call>>

spansVars == <<sp_pc, sp_text, sp_results, sp_pii_data, sp_detected_names>>

outreachVars == <<oc_pc, oc_now, outreach_cache_table, oc_call>>

vars == <<riskVars, genVars, piiVars, chatVars, matchVars, ingestVars, uploadVars, cacheVars, spansVars, outreachVars>>

nonRiskVars == <<genVars, piiVars, chatVars, matchVars, ingestVars, uploadVars, cacheVars, spansVars, outreachVars>>

nonGenVars == <<riskVars, piiVars, chatVars, matchVars, ingestVars, uploadVars, cacheVars, spansVars, outreachVars>>

nonPiiVars == <<riskVars, genVars, chatVars, matchVars, ingestVars, uploadVars, cacheVars, spansVars, outreachVars>>

nonChatVars == <<riskVars, genVars, piiVars, matchVars, ingestVars, uploadVars, cacheVars, spansVars, outreachVars>>

nonMatchVars == <<riskVars, genVars, piiVars, chatVars, ingestVars, uploadVars, cacheVars, spansVars, outreachVars>>

nonIngestVars == <<riskVars, genVars, piiVars, chatVars, matchVars, uploadVars, cacheVars, spansVars, outreachVars>>

nonUploadVars == <<riskVars, genVars, piiVars, chatVars, matchVars, ingestVars, cacheVars, spansVars, outreachVars>>

nonCacheVars == <<riskVars, genVars, piiVars, chatVars, matchVars, ingestVars, uploadVars, spansVars, outreachVars>>

nonSpansVars == <<riskVars, genVars, piiVars, chatVars, matchVars, ingestVars, uploadVars, cacheVars, outreachVars>>

nonOutreachVars == <<riskVars, genVars, piiVars, chatVars, matchVars, ingestVars, uploadVars, cacheVars, spansVars>>

\* ---------------------------------------------------------------------------
\* Generic helpers
\* ---------------------------------------------------------------------------

\* All sequences over S of length 0..n.
SeqsUpTo(S, n) == UNION {[1..k -> S] : k \in 0..n}

\* The set of entries of a sequence: Python's set(list).
Range(s) == {s[i] : i \in 1..Len(s)}

\* list.insert(pos - 1, x): x becomes the entry at (1-based) position pos.
InsertAt(s, pos, x) == SubSeq(s, 1, pos - 1) \o <<x>> \o SubSeq(s, pos, Len(s))

\* ===========================================================================
\* ResumeProcessor.calculate_risk_score
\* ===========================================================================

\* ---- bounds of the inputs -------------------------------------------------
MaxTitles == 3

\* ---- program constants ----------------------------------------------------
MissingInfoPoints == 1
OverlapPoints == 2
SkillDensityPoints == 1
ShortStintsPoints == 2
TitleProgressionPoints == 1
InsufficientDetailPoints == 1
EducationMismatchPoints == 1
RapidProgressionPoints == 1
MaxSkillDensity == 3
MaxCompaniesShort == 3
ShortStintYears == 5
MinSummaryLen == 100
RapidTitles == 2
RapidYears == 3
MediumFrom == 3
HighFrom == 6
VeryHighFrom == 9
ScaleMax == 10

\* ---- the profile fields the scorer reads ------------------------------------
\* Job titles, and the two substring tests the scorer makes on their lower case.
JobTitles == {"Senior Engineer", "Engineer"}

\* 'senior' in title.lower()
HasSenior(title) == title \in {"Senior Engineer"}

\* any(word in current_title for word in ['junior','entry','associate','trainee'])
HasJuniorWord(title) == title \in {"Junior Analyst"}

\* 'phd' in level.lower() or 'doctorate' in level.lower()
IsDoctoral(level) == level \in {"PhD"}

\* total_years_experience: None, a number, or (ill-typed JSON) a string.
YearsValues ==
    {[kind |-> "none", val |-> 0], [kind |-> "str", val |-> 0]}
        \cup {[kind |-> "num", val |-> v] : v \in {0, 1, RapidYears, ShortStintYears}}

ProfileInputs ==
    [ email : {"", "[EMAIL]"},
      phone : {"", "[PHONE]"},
      location : {"", "Melbourne"},
      education : 0..1,                          \* len(education)
      previous_job_titles : SeqsUpTo(JobTitles, MaxTitles),
      skills : {MaxSkillDensity, MaxSkillDensity + 1},                \* len(skills)
      total_years_experience : YearsValues,
      companies_worked_at : {MaxCompaniesShort, MaxCompaniesShort + 1}, \* len(companies)
      summary_statement : {0, MinSummaryLen - 1, MinSummaryLen}, \* len(work_experience.summary_statement), 0 if absent
      degree_level : {<<"Bachelors">>, <<"PhD">>},
      current_or_last_job_title : {"Junior Analyst", "Engineer"} ]

\* A profile of the documented shape: every field has its documented type.
WellTyped(pd) == pd.total_years_experience.kind # "str"

\* ---- the eight rules, in the order the code evaluates them ------------------
Issue(msg) == [msg |-> msg, level |-> "", score |-> 0, missing |-> <<>>]

MissingInfo(pd) ==
    (IF pd.email = "" THEN <<"email">> ELSE <<>>)
        \o (IF pd.phone = "" THEN <<"phone">> ELSE <<>>)
        \o (IF pd.location = "" THEN <<"location">> ELSE <<>>)
        \o (IF pd.education = 0 THEN <<"education details">> ELSE <<>>)

RuleMissingInfo(pd) == MissingInfo(pd) # <<>>

RuleOverlap(pd) ==
    Cardinality(Range(pd.previous_job_titles)) < Len(pd.previous_job_titles)

\* years_experience is not None and years_experience > 0 and len(skills)/years > 3
RuleSkillDensity(pd) ==
    LET y == pd.total_years_experience IN
    /\ y.kind = "num"
    /\ y.val > 0
    /\ pd.skills > MaxSkillDensity * y.val

RuleShortStints(pd) ==
    LET y == pd.total_years_experience IN
    /\ pd.companies_worked_at > MaxCompaniesShort
    /\ (y.kind = "none" \/ y.val < ShortStintYears)

RuleTitleProgression(pd) ==
    LET t == pd.previous_job_titles IN
    /\ Len(t) > 1
    /\ \E i \in 1..(Len(t) - 1) : HasSenior(t[i])
    /\ ~HasSenior(t[Len(t)])

\* summary = work_experience.get('summary_statement', '')
RuleInsufficientDetail(pd) == pd.summary_statement < MinSummaryLen

RuleEducationMismatch(pd) ==
    /\ pd.degree_level # <<>>
    /\ pd.current_or_last_job_title # ""
    /\ \E i \in 1..Len(pd.degree_level) : IsDoctoral(pd.degree_level[i])
    /\ HasJuniorWord(pd.current_or_last_job_title)

RuleRapidProgression(pd) ==
    LET y == pd.total_years_experience IN
    /\ Len(pd.previous_job_titles) > RapidTitles
    /\ (y.kind = "none" \/ y.val < RapidYears)

RiskLevel(score) ==
    IF score >= VeryHighFrom THEN "Very High"
    ELSE IF score >= HighFrom THEN "High"
    ELSE IF score >= MediumFrom THEN "Medium"
    ELSE "Low"

\* f"Risk Level: {risk_level} ({risk_score}/10)"
RiskLevelLine(score) ==
    [msg |-> "Risk Level", level |-> RiskLevel(score), score |-> score, missing |-> <<>>]

\* `years_experience > 0` on a str raises TypeError inside the try block.
RiskRaises(pd) == pd.total_years_experience.kind = "str"

Points(fired, weight) == IF fired THEN weight ELSE 0

\* Variant of Line: a line is appended for every rule, fired or not.
LineAlways(fired, msg) == <<Issue(msg)>>

Line(fired, msg) == IF fired THEN <<Issue(msg)>> ELSE <<>>

\* Variant of OverlapScore: the overlap penalty weighs 3 points.
OverlapScoreThree(pd) == Points(RuleOverlap(pd), OverlapPoints + 1)

\* Variant of OverlapScore: the overlap rule adds no points.
OverlapScoreNone(pd) == Points(RuleOverlap(pd), 0)

\* risk_score += 2 when previous_job_titles has a duplicate
OverlapScore(pd) == Points(RuleOverlap(pd), OverlapPoints)

\* Variant of WithRiskLevel: the summary line is appended, not inserted first.
WithRiskLevelAppended(score, issues) == issues \o <<RiskLevelLine(score)>>

\* issues.insert(0, f"Risk Level: {risk_level} ({risk_score}/10)")
WithRiskLevel(score, issues) == <<RiskLevelLine(score)>> \o issues

\* Variant of ErrorResult: the handler returns the points added before the
\* exception (the two rules evaluated ahead of the skill-density comparison).
ErrorResultPartial(pd) ==
    [risk_score |-> Points(RuleMissingInfo(pd), MissingInfoPoints) + OverlapScore(pd),
     issues |-> <<Issue("Error calculating risk score")>>]

\* except Exception: return 0, ["Error calculating risk score"]
ErrorResult(pd) ==
    [risk_score |-> 0, issues |-> <<Issue("Error calculating risk score")>>]

calculate_risk_score(pd) ==
    IF RiskRaises(pd)
    THEN ErrorResult(pd)
    ELSE
        LET score ==
                Points(RuleMissingInfo(pd), MissingInfoPoints)
                + OverlapScore(pd)
                + Points(RuleSkillDensity(pd), SkillDensityPoints)
                + Points(RuleShortStints(pd), ShortStintsPoints)
                + Points(RuleTitleProgression(pd), TitleProgressionPoints)
                + Points(RuleInsufficientDetail(pd), InsufficientDetailPoints)
                + Points(RuleEducationMismatch(pd), EducationMismatchPoints)
                + Points(RuleRapidProgression(pd), RapidProgressionPoints)
            issues ==
                (IF RuleMissingInfo(pd)
                 THEN <<[msg |-> "Missing key information", level |-> "", score |-> 0,
                         missing |-> MissingInfo(pd)]>>
                 ELSE <<>>)
                \o Line(RuleOverlap(pd), "Overlapping roles detected in work history")
                \o Line(RuleSkillDensity(pd), "High skill density for experience level")
                \o Line(RuleShortStints(pd), "Multiple short job stints detected")
                \o Line(RuleTitleProgression(pd), "Inconsistent title progression detected")
                \o Line(RuleInsufficientDetail(pd), "Insufficient details in resume")
                \o Line(RuleEducationMismatch(pd),
                        "Education level appears mismatched with current role")
                \o Line(RuleRapidProgression(pd), "Rapid career progression detected")
        IN  [risk_score |-> score, issues |-> WithRiskLevel(score, issues)]

NoResult == [risk_score |-> 0, issues |-> <<>>]

\* The scorer before a call: any profile may be handed to it.
RiskInput ==
    /\ risk_pc = "input"
    /\ parsed_data \in ProfileInputs
    /\ risk_result = NoResult
    /\ dup_data = parsed_data
    /\ dup_result = NoResult

\* The scorer is not called.
RiskIdle ==
    /\ risk_pc = "idle"
    /\ parsed_data = NoResult
    /\ risk_result = NoResult
    /\ dup_data = NoResult
    /\ dup_result = NoResult

\* One call of calculate_risk_score on the profile.
CalculateRiskScore ==
    /\ risk_pc = "input"
    /\ risk_result' = calculate_risk_score(parsed_data)
    /\ risk_pc' = "scored"
    /\ UNCHANGED <<parsed_data, dup_data, dup_result>>
    /\ UNCHANGED nonRiskVars

\* A second call, on the same profile with one previous_job_titles entry
\* duplicated: the entry at index src is inserted at position pos.
CalculateRiskScoreWithDuplicate ==
    /\ risk_pc = "scored"
    /\ LET t == parsed_data.previous_job_titles IN
       /\ Len(t) < MaxTitles
       /\ \E src \in 1..Len(t), pos \in 1..(Len(t) + 1) :
            /\ dup_data' = [parsed_data EXCEPT
                               !.previous_job_titles = InsertAt(t, pos, t[src])]
            /\ dup_result' = calculate_risk_score(dup_data')
    /\ risk_pc' = "compared"
    /\ UNCHANGED <<parsed_data, risk_result>>
    /\ UNCHANGED nonRiskVars

\* ===========================================================================
\* OpenAIClient.generate_outreach
\* ===========================================================================

\* ---- bounds of the inputs -------------------------------------------------
MaxQuestions == 4

\* The recruiter queries of a session.
Queries == {"q1", "q2"}

\* ---- program constants ----------------------------------------------------
max_retries == 3
retry_delay == 1
RequiredQuestions == 3
FallbackMessageSkills == 3

\* openai_client.py imports os, OpenAI, typing, json and time and defines no
\* module-level logger, so every `logger.error(...)` in it raises NameError.
LoggerDefined == FALSE

\* The candidate dicts handed to generate_outreach: rows of the search result.
\* full_name is present only when the row had a resumes_pii record.
GenCandidates ==
    { [id |-> "c1", has_full_name |-> TRUE, full_name |-> "John Smith",
       current_or_last_job_title |-> "Data Engineer",
       skills |-> <<"sql", "python", "go", "spark">>],
      [id |-> "c2", has_full_name |-> TRUE, full_name |-> "Mei Chen",
       current_or_last_job_title |-> "Analyst",
       skills |-> <<"sql">>],
      [id |-> "c3", has_full_name |-> FALSE, full_name |-> "",
       current_or_last_job_title |-> "Recruiter",
       skills |-> <<>>] }

\* What one chat-completion call can produce: an exception, a body that is
\* not JSON, or a JSON value of some shape.
JsonShapes ==
    { r \in [is_dict : BOOLEAN, has_msg : BOOLEAN, has_qs : BOOLEAN,
             qs_is_list : BOOLEAN, n_qs : 0..MaxQuestions] :
        /\ ~r.is_dict => (~r.has_msg /\ ~r.has_qs)
        /\ ~r.has_qs => (~r.qs_is_list /\ r.n_qs = 0) }

CallOutcomes ==
    { [kind |-> "api_error", json |-> <<>>], [kind |-> "bad_json", json |-> <<>>] }
        \cup { [kind |-> "json", json |-> <<r>>] : r \in JsonShapes }

NoOutcome == [kind |-> "none", json |-> <<>>]

\* Variant of ValidOutreachResponse: the number of questions is not checked.
ValidOutreachResponseAnyLength(r) ==
    /\ r.is_dict /\ r.has_msg /\ r.has_qs
    /\ r.qs_is_list

\* The two structure checks made on the parsed response.
ValidOutreachResponse(r) ==
    /\ r.is_dict /\ r.has_msg /\ r.has_qs
    /\ r.qs_is_list /\ r.n_qs = RequiredQuestions

Take(s, n) == SubSeq(s, 1, IF Len(s) < n THEN Len(s) ELSE n)

\* A value returned by generate_outreach: where it came from, its shape, and
\* the candidate fields the fallback template interpolates.
FromResponse(r) ==
    [src |-> "llm", shape |-> r, name |-> "", title |-> "", top_skills |-> <<>>]

FallbackResponse(c) ==
    [src |-> "fallback",
     shape |-> [is_dict |-> TRUE, has_msg |-> TRUE, has_qs |-> TRUE,
                qs_is_list |-> TRUE, n_qs |-> RequiredQuestions],
     name |-> c.full_name, title |-> c.current_or_last_job_title,
     top_skills |-> Take(c.skills, FallbackMessageSkills)]

NoOutreach ==
    [src |-> "none",
     shape |-> [is_dict |-> FALSE, has_msg |-> FALSE, has_qs |-> FALSE,
                qs_is_list |-> FALSE, n_qs |-> 0],
     name |-> "", title |-> "", top_skills |-> <<>>]

\* Does this attempt fail?  The prompt f-string raises KeyError when the
\* candidate has no 'full_name'; otherwise the call, json.loads or one of the
\* two structure checks may raise.
AttemptFails(c, outcome) ==
    \/ ~c.has_full_name
    \/ outcome.kind # "json"
    \/ ~ValidOutreachResponse(outcome.json[1])

\* The exception handlers of one iteration of `for attempt in
\* range(max_retries)`: what the function does after a failed attempt.
\*   "retry"   sleep retry_delay * (attempt + 1), then the next attempt
\*   "raise"   an exception leaves the function
\*   "return"  the fallback is returned
HandleFailure(c, attempt) ==
    IF ~LoggerDefined
    THEN [do |-> "raise", value |-> NoOutreach]     \* NameError in the handler
    ELSE IF attempt < max_retries - 1
    THEN [do |-> "retry", value |-> NoOutreach]
    ELSE IF ~c.has_full_name
    THEN [do |-> "raise", value |-> NoOutreach]     \* KeyError in the fallback
    ELSE [do |-> "return", value |-> FallbackResponse(c)]

\* One whole iteration, given the outcome of its external call.
AttemptStep(c, attempt, outcome) ==
    IF AttemptFails(c, outcome)
    THEN HandleFailure(c, attempt)
    ELSE [do |-> "return", value |-> FromResponse(outcome.json[1])]

GenIdle ==
    /\ gen_pc = "off"
    /\ gen_candidate = NoOutreach
    /\ gen_query = ""
    /\ gen_attempt = 0
    /\ gen_calls = 0
    /\ gen_last = NoOutcome
    /\ gen_result = NoOutreach
    /\ gen_slept = 0

\* generate_outreach is about to be called on some candidate and query.
GenStart ==
    /\ gen_pc = "idle"
    /\ gen_candidate \in GenCandidates
    /\ gen_query \in Queries
    /\ gen_attempt = 0
    /\ gen_calls = 0
    /\ gen_last = NoOutcome
    /\ gen_result = NoOutreach
    /\ gen_slept = 0

\* The effect of a step's decision on the loop state.
GenApply(step) ==
    /\ gen_pc' = CASE step.do = "return" -> "returned"
                   [] step.do = "raise" -> "raised"
                   [] OTHER -> "running"
    /\ gen_result' = step.value
    /\ gen_attempt' = IF step.do = "retry" THEN gen_attempt + 1 ELSE gen_attempt
    /\ gen_slept' = IF step.do = "retry"
                    THEN gen_slept + retry_delay * (gen_attempt + 1)
                    ELSE gen_slept

\* Entry: max_retries = 3, retry_delay = 1, the loop starts at attempt 0.
GenerateOutreachCall ==
    /\ gen_pc = "idle"
    /\ gen_pc' = "running"
    /\ UNCHANGED <<gen_candidate, gen_query, gen_attempt, gen_calls, gen_last,
                   gen_result, gen_slept>>
    /\ UNCHANGED nonGenVars

\* First half of an iteration: the prompt is built and the chat completion
\* is requested.  A KeyError of the prompt and an exception of the call are
\* handled here; a response, of whatever content, is kept for validation.
GenerateOutreachRequest ==
    /\ gen_pc = "running"
    /\ gen_attempt < max_retries
    /\ IF ~gen_candidate.has_full_name
       THEN /\ GenApply(HandleFailure(gen_candidate, gen_attempt))
            /\ UNCHANGED <<gen_calls, gen_last>>
       ELSE \E outcome \in CallOutcomes :
              /\ gen_calls' = gen_calls + 1
              /\ gen_last' = outcome
              /\ IF outcome.kind = "api_error"
                 THEN GenApply(HandleFailure(gen_candidate, gen_attempt))
                 ELSE /\ gen_pc' = "responded"
                      /\ UNCHANGED <<gen_result, gen_attempt, gen_slept>>
    /\ UNCHANGED <<gen_candidate, gen_query>>
    /\ UNCHANGED nonGenVars

\* Second half: json.loads and the two structure checks on the response.
GenerateOutreachValidate ==
    /\ gen_pc = "responded"
    /\ GenApply(AttemptStep(gen_candidate, gen_attempt, gen_last))
    /\ UNCHANGED <<gen_candidate, gen_query, gen_calls, gen_last>>
    /\ UNCHANGED nonGenVars

\* ===========================================================================
\* PIIProcessor: extract_pii and anonymize_text
\* ===========================================================================

\* ---- bounds of the inputs -------------------------------------------------
MaxTextLen == 4
MaxResults == 2

\* ---- program constants ----------------------------------------------------
MinNameWords == 2
MinNameLen == 4
MaxNameLen == 50

\* The characters of the modelled texts: a letter, a blank and '#'.
Alphabet == {"a", " ", "#"}

Texts == SeqsUpTo(Alphabet, MaxTextLen)

\* \w and \s of the regular expressions, within the alphabet.
WordChars == {"a"}
Whitespace == {" "}

\* The character class of the re.search of is_valid_name.
NameForbiddenChars ==
    {"0", "1", "2", "3", "4", "5", "6", "7", "8", "9", "!", "@", "#", "$", "%",
     "^", "&", "*", "(", ")", "_", "+", "-", "=", "[", "]", "{", "}", ";", "'",
     "\"", "\\", "|", ",", ".", "<", ">", "/", "?"}

\* The separators of the re.split of extract_location_components.
LocationSeparators == {",", ";"}

\* The false_positives lexicon (lower case).  Every entry is a single word
\* over letters other than the alphabet's, so none can be spelled here; two
\* entries are kept to show the shape.
false_positives ==
    { <<"d", "o", "c", "k", "e", "r">>, <<"a", "w", "s">> }

NAME == <<"[", "N", "A", "M", "E", "]">>
EMAIL == <<"[", "E", "M", "A", "I", "L", "]">>
PHONE == <<"[", "P", "H", "O", "N", "E", "]">>
ADDRESS == <<"[", "A", "D", "D", "R", "E", "S", "S", "]">>
Australia == <<"A", "u", "s", "t", "r", "a", "l", "i", "a">>

\* sub in s, for a non-empty sub
Contains(s, sub) ==
    \E i \in 1..(Len(s) - Len(sub) + 1) : SubSeq(s, i, i + Len(sub) - 1) = sub

\* s.replace(old, new) for a non-empty old: every non-overlapping occurrence,
\* scanning from the left.
RECURSIVE Replace(_, _, _)
Replace(s, old, new) ==
    IF Len(s) < Len(old) THEN s
    ELSE IF SubSeq(s, 1, Len(old)) = old
    THEN new \o Replace(SubSeq(s, Len(old) + 1, Len(s)), old, new)
    ELSE <<s[1]>> \o Replace(Tail(s), old, new)

\* s.strip()
RECURSIVE Strip(_)
Strip(s) ==
    IF s = <<>> THEN s
    ELSE IF s[1] \in Whitespace THEN Strip(Tail(s))
    ELSE IF s[Len(s)] \in Whitespace THEN Strip(SubSeq(s, 1, Len(s) - 1))
    ELSE s

\* re.split(r'[,;]', s): the pieces between separators (at least one piece).
RECURSIVE SplitParts(_, _)
SplitParts(s, piece) ==
    IF s = <<>> THEN <<piece>>
    ELSE IF s[1] \in LocationSeparators
    THEN <<piece>> \o SplitParts(Tail(s), <<>>)
    ELSE SplitParts(Tail(s), Append(piece, s[1]))

\* len(name.split()): the number of maximal runs of non-blank characters.
WordCount(s) ==
    Cardinality({i \in 1..Len(s) :
        s[i] \notin Whitespace /\ (i = 1 \/ s[i - 1] \in Whitespace)})

is_valid_name(name) ==
    /\ name \notin false_positives                    \* all lower case here
    /\ ~(WordCount(name) < MinNameWords)
    /\ ~(\E i \in 1..Len(name) : name[i] \in NameForbiddenChars)
    /\ ~(Len(name) < MinNameLen \/ Len(name) > MaxNameLen)

\* re.search over the four address_patterns.  Three of them need letters or
\* digits the alphabet lacks (a house number and a street type, "PO Box", an
\* e-mail address); of the second, \b(?:Apt|...|Fl|#)\s*[A-Za-z0-9-]+\b, only
\* the '#' alternative can match: a word character, '#', blanks, a word
\* character.
is_detailed_address(s) ==
    \E i \in 1..Len(s), j \in 1..Len(s) :
        /\ i + 1 < j
        /\ s[i] \in WordChars
        /\ s[i + 1] = "#"
        /\ \A k \in (i + 2)..(j - 1) : s[k] \in Whitespace
        /\ s[j] \in WordChars

extract_location_components(s) ==
    LET parts == SplitParts(s, <<>>) IN
    [city |-> Strip(parts[1]),
     state |-> IF Len(parts) >= 2 THEN Strip(parts[2]) ELSE <<>>,
     country |-> IF Len(parts) >= 3 THEN Strip(parts[3]) ELSE Australia]

\* The record extract_pii starts from, and returns when it fails.
EmptyPii ==
    [full_name |-> <<>>, email |-> <<>>, phone |-> <<>>, address |-> <<>>,
     location |-> [city |-> <<>>, state |-> <<>>, country |-> Australia]]

EntityTypes == {"PERSON", "EMAIL_ADDRESS", "PHONE_NUMBER", "LOCATION"}

\* Variant of ProcessResult: a location is merged into the record, a
\* component the span lacks keeping what an earlier span provided.
ProcessResultMerging(pd, entity_type, value) ==
    CASE entity_type = "EMAIL_ADDRESS" -> [pd EXCEPT !.email = value]
      [] entity_type = "PHONE_NUMBER" -> [pd EXCEPT !.phone = value]
      [] entity_type = "LOCATION" ->
            IF is_detailed_address(value)
            THEN [pd EXCEPT !.address = value]
            ELSE LET c == extract_location_components(value)
                     parts == SplitParts(value, <<>>) IN
                 [pd EXCEPT !.location =
                     [city |-> c.city,
                      state |-> IF Len(parts) >= 2 THEN c.state ELSE pd.location.state,
                      country |-> IF Len(parts) >= 3 THEN c.country
                                  ELSE pd.location.country]]
      [] OTHER -> pd

\* The body of `for result in results` for one result: value is
\* text[result.start:result.end].
ProcessResult(pd, entity_type, value) ==
    CASE entity_type = "EMAIL_ADDRESS" -> [pd EXCEPT !.email = value]
      [] entity_type = "PHONE_NUMBER" -> [pd EXCEPT !.phone = value]
      [] entity_type = "LOCATION" ->
            IF is_detailed_address(value)
            THEN [pd EXCEPT !.address = value]
            ELSE [pd EXCEPT !.location = extract_location_components(value)]
      [] OTHER -> pd

\* if detected_names: pii_data['full_name'] = detected_names[0]
WithFullName(pd, names) ==
    IF names # <<>> THEN [pd EXCEPT !.full_name = names[1]] ELSE pd

\* Variant of Redact: the detected city is masked as well.
RedactWithCity(t, pd) ==
    LET t1 == IF pd.full_name # <<>> THEN Replace(t, pd.full_name, NAME) ELSE t
        t2 == IF pd.email # <<>> THEN Replace(t1, pd.email, EMAIL) ELSE t1
        t3 == IF pd.phone # <<>> THEN Replace(t2, pd.phone, PHONE) ELSE t2
        t4 == IF pd.address # <<>> THEN Replace(t3, pd.address, ADDRESS) ELSE t3
    IN  IF pd.location.city # <<>> THEN Replace(t4, pd.location.city, ADDRESS) ELSE t4

\* The four guarded replacements of anonymize_text, in their order.
Redact(t, pd) ==
    LET t1 == IF pd.full_name # <<>> THEN Replace(t, pd.full_name, NAME) ELSE t
        t2 == IF pd.email # <<>> THEN Replace(t1, pd.email, EMAIL) ELSE t1
        t3 == IF pd.phone # <<>> THEN Replace(t2, pd.phone, PHONE) ELSE t2
    IN  IF pd.address # <<>> THEN Replace(t3, pd.address, ADDRESS) ELSE t3

PiiIdle ==
    /\ pii_pc = "off"
    /\ text = <<>>
    /\ n_results = 0
    /\ pii_data = EmptyPii
    /\ detected_names = <<>>
    /\ anonymized_text = <<>>

\* anonymize_text is called on some text.
PiiStart ==
    /\ pii_pc = "start"
    /\ text \in Texts
    /\ n_results = 0
    /\ pii_data = EmptyPii
    /\ detected_names = <<>>
    /\ anonymized_text = <<>>

\* extract_pii: analyzer.analyze returned; the loop over its results starts.
ExtractPiiAnalyze ==
    /\ pii_pc = "start"
    /\ pii_pc' = "loop"
    /\ UNCHANGED <<text, n_results, pii_data, detected_names, anonymized_text>>
    /\ UNCHANGED nonPiiVars

\* extract_pii: the analyzer raised; the except branch returns the empty
\* record, and anonymize_text goes on with it.
ExtractPiiFails ==
    /\ pii_pc = "start"
    /\ pii_pc' = "done"
    /\ pii_data' = EmptyPii
    /\ anonymized_text' = Redact(text, EmptyPii)
    /\ UNCHANGED <<text, n_results, detected_names>>
    /\ UNCHANGED nonPiiVars

\* extract_pii: one iteration of the loop, on the next result of the
\* recognizer: any entity type on any non-empty span of the text.
ExtractPiiResult ==
    /\ pii_pc = "loop"
    /\ n_results < MaxResults
    /\ \E entity_type \in EntityTypes, start \in 0..(Len(text) - 1), end \in 1..Len(text) :
         /\ start < end
         /\ LET value == SubSeq(text, start + 1, end) IN
            /\ pii_data' = ProcessResult(pii_data, entity_type, value)
            /\ detected_names' =
                 IF entity_type = "PERSON" /\ is_valid_name(value)
                 THEN Append(detected_names, value)
                 ELSE detected_names
    /\ n_results' = n_results + 1
    /\ UNCHANGED <<pii_pc, text, anonymized_text>>
    /\ UNCHANGED nonPiiVars

\* The results are exhausted: extract_pii picks the name and returns, and
\* anonymize_text makes its replacements and returns.
AnonymizeText ==
    /\ pii_pc = "loop"
    /\ pii_pc' = "done"
    /\ pii_data' = WithFullName(pii_data, detected_names)
    /\ anonymized_text' = Redact(text, pii_data')
    /\ UNCHANGED <<text, n_results, detected_names>>
    /\ UNCHANGED nonPiiVars

\* ===========================================================================
\* The chat page: search, ranking and outreach generation in one session
\* ===========================================================================

\* ---- bounds of the inputs -------------------------------------------------
MaxRequests == 6
MaxSearches == 2
StartTime == 4000
Horizon == 3700

\* ---- program constants ----------------------------------------------------
RateWindow == 3600
RateLimit == 5
OutreachTtl == 3600
top_n == 5

\* Seconds a button press takes, and the pause between two interactions.
RequestSeconds == 1
Pause == 1800

\* The rows of resumes joined with resumes_pii: the candidates a search can
\* return.  The session's corpus holds one candidate, with a resumes_pii
\* record.
StoredCandidates == {c \in GenCandidates : c.id = "c1"}

CandidateIds == {c.id : c \in StoredCandidates}

Candidate(id) == CHOOSE c \in StoredCandidates : c.id = id

\* The resumes_pii table.
resumes_pii ==
    [id \in CandidateIds |->
        [full_name |-> Candidate(id).full_name,
         email |-> "john.smith@example.com",
         phone |-> "0400 000 001"]]

\* What a search can return: some of the stored candidates.
SearchRows == {rows \in SeqsUpTo(CandidateIds, Cardinality(CandidateIds)) : rows # <<>>}

NoSearchResults == [set |-> FALSE, rows |-> <<>>]

NoFilters == [set |-> FALSE, of |-> ""]

\* An entry of an st.cache_data cache: the cached return value and when it
\* was stored.
NoEntry == [has |-> FALSE, val |-> FALSE, at |-> 0]

Entry(val) == [has |-> TRUE, val |-> val, at |-> now]

\* st.cache_data(ttl=...): a stored value is served, without running the
\* function, until it is ttl seconds old.
Fresh(entry, ttl) == entry.has /\ now - entry.at < ttl

\* The values interpolated into the prompt of rank_candidates for one row.
RankPrompt(query, c) ==
    [fn |-> "rank_candidates",
     values |-> {query, c.full_name, c.current_or_last_job_title} \cup Range(c.skills)]

\* rank_candidates: one request for each of the first top_n candidates.
RankRequests(query, rows) ==
    {RankPrompt(query, Candidate(rows[i])) : i \in 1..(IF Len(rows) < top_n THEN Len(rows) ELSE top_n)}

\* The values interpolated into the prompt of generate_outreach.
OutreachPrompt(query, c) ==
    [fn |-> "generate_outreach",
     values |-> {query, c.full_name, c.current_or_last_job_title} \cup Range(c.skills)]

FiltersPrompt(query) == [fn |-> "extract_query_filters", values |-> {query}]

\* The LLM answers a button press can meet: some failures of one kind (an
\* API error, or a response with two questions), then well-formed responses.
ValidShape ==
    [is_dict |-> TRUE, has_msg |-> TRUE, has_qs |-> TRUE, qs_is_list |-> TRUE,
     n_qs |-> RequiredQuestions]

ValidOutcome == [kind |-> "json", json |-> <<ValidShape>>]

FailedOutcomes ==
    { [kind |-> "api_error", json |-> <<>>],
      [kind |-> "json", json |-> <<[ValidShape EXCEPT !.n_qs = RequiredQuestions - 1]>>] }

SessionOutcomes ==
    { [i \in 1..max_retries |-> IF i <= n THEN failure ELSE ValidOutcome] :
        n \in 0..max_retries, failure \in FailedOutcomes }

\* generate_outreach as one call: the attempts from `attempt` on, given the
\* outcome of each chat-completion call.  answered: some request got a
\* response from the service.
RECURSIVE RunAttempts(_, _, _)
RunAttempts(c, attempt, outcomes) ==
    LET step == AttemptStep(c, attempt, outcomes[attempt + 1])
        answered == c.has_full_name /\ outcomes[attempt + 1].kind # "api_error"
    IN  IF step.do = "retry"
        THEN LET rest == RunAttempts(c, attempt + 1, outcomes)
             IN  [rest EXCEPT !.answered = @ \/ answered]
        ELSE [do |-> step.do, answered |-> answered]

\* can_generate_outreach, the function body: the value returned and the
\* outreach_count it leaves.
CanGenerateBody(id) ==
    IF now - last_outreach_time[id] > RateWindow
    THEN [ret |-> TRUE, count |-> [outreach_count EXCEPT ![id] = 0]]
    ELSE IF outreach_count[id] >= RateLimit
    THEN [ret |-> FALSE, count |-> outreach_count]
    ELSE [ret |-> TRUE, count |-> outreach_count]

\* can_generate_outreach as called: behind @st.cache_data(ttl=3600), keyed by
\* candidate_id.
CanGenerateOutreach(id) ==
    IF Fresh(can_generate_cache[id], OutreachTtl)
    THEN [ret |-> can_generate_cache[id].val, count |-> outreach_count,
          cache |-> can_generate_cache]
    ELSE LET body == CanGenerateBody(id)
         IN  [ret |-> body.ret, count |-> body.count,
              cache |-> [can_generate_cache EXCEPT ![id] = Entry(body.ret)]]

\* get_cached_outreach as called: behind @st.cache_data(ttl=3600), keyed by
\* (candidate_id, query).  The body returns the row's data, or None.
GetCachedOutreach(key) ==
    IF Fresh(lookup_cache[key], OutreachTtl)
    THEN [ret |-> lookup_cache[key].val, cache |-> lookup_cache]
    ELSE [ret |-> key \in outreach_cache,
          cache |-> [lookup_cache EXCEPT ![key] = Entry(key \in outreach_cache)]]

\* cache_outreach_message as called: behind @st.cache_data(ttl=3600).  The
\* body upserts the row; a failing upsert is logged and None is returned.
CacheOutreachMessage(key, db_ok) ==
    IF Fresh(store_cache[key], OutreachTtl)
    THEN [rows |-> outreach_cache, cache |-> store_cache]
    ELSE [rows |-> IF db_ok THEN outreach_cache \cup {key} ELSE outreach_cache,
          cache |-> [store_cache EXCEPT ![key] = Entry(db_ok)]]

\* generate_outreach_message, the function body.  ret: outreach data was
\* returned (not None).  source: where it came from.
GenerateMessageBody(key, outcomes, db_ok) ==
    LET c == Candidate(key[1])
        cached == GetCachedOutreach(key)
        gen == RunAttempts(c, 0, outcomes)
        stored == CacheOutreachMessage(key, db_ok)
        sent == IF gen.answered THEN {OutreachPrompt(key[2], c)} ELSE {}
    IN  IF cached.ret
        THEN [ret |-> TRUE, source |-> "outreach_cache", lookup |-> cached.cache,
              store |-> store_cache, rows |-> outreach_cache, sent |-> {}]
        ELSE IF gen.do = "return"
        THEN [ret |-> TRUE, source |-> "generated", lookup |-> cached.cache,
              store |-> stored.cache, rows |-> stored.rows, sent |-> sent]
        ELSE [ret |-> FALSE, source |-> "failed", lookup |-> cached.cache,
              store |-> store_cache, rows |-> outreach_cache, sent |-> sent]

\* generate_outreach_message as called: behind @st.cache_data(ttl=3600),
\* keyed by (candidate, query).
GenerateOutreachMessage(key, outcomes, db_ok) ==
    IF Fresh(message_cache[key], OutreachTtl)
    THEN [ret |-> message_cache[key].val,
          source |-> IF message_cache[key].val THEN "st_cache" ELSE "failed",
          message |-> message_cache, lookup |-> lookup_cache,
          store |-> store_cache, rows |-> outreach_cache, sent |-> {}]
    ELSE LET body == GenerateMessageBody(key, outcomes, db_ok)
         IN  [ret |-> body.ret, source |-> body.source,
              message |-> [message_cache EXCEPT ![key] = Entry(body.ret)],
              lookup |-> body.lookup, store |-> body.store, rows |-> body.rows,
              sent |-> body.sent]

NoRequest == [candidate |-> "", source |-> "none"]

ChatIdle ==
    /\ now = 0
    /\ user_id = ""
    /\ search_results = NoSearchResults
    /\ last_query = ""
    /\ current_filters = NoFilters
    /\ outreach_count = [id \in CandidateIds |-> 0]
    /\ last_outreach_time = [id \in CandidateIds |-> 0]
    /\ outreach_shown = {}
    /\ can_generate_cache = [id \in CandidateIds |-> NoEntry]
    /\ message_cache = [key \in CandidateIds \X Queries |-> NoEntry]
    /\ lookup_cache = [key \in CandidateIds \X Queries |-> NoEntry]
    /\ store_cache = [key \in CandidateIds \X Queries |-> NoEntry]
    /\ outreach_cache = {}
    /\ llm_requests = {}
    /\ admitted = [id \in CandidateIds |-> <<>>]
    /\ requests = 0
    /\ searches = 0
    /\ last_request = NoRequest

\* A recruiter has logged in (login.py sets authenticated and user_id
\* together) and opens the chat page; initialize_session_state has run.
ChatStart ==
    /\ now = StartTime
    /\ user_id = "u1"
    /\ search_results = NoSearchResults
    /\ last_query = ""
    /\ current_filters = NoFilters
    /\ outreach_count = [id \in CandidateIds |-> 0]
    /\ last_outreach_time = [id \in CandidateIds |-> 0]
    /\ outreach_shown = {}
    /\ can_generate_cache = [id \in CandidateIds |-> NoEntry]
    /\ message_cache = [key \in CandidateIds \X Queries |-> NoEntry]
    /\ lookup_cache = [key \in CandidateIds \X Queries |-> NoEntry]
    /\ store_cache = [key \in CandidateIds \X Queries |-> NoEntry]
    /\ outreach_cache = {}
    /\ llm_requests = {}
    /\ admitted = [id \in CandidateIds |-> <<>>]
    /\ requests = 0
    /\ searches = 0
    /\ last_request = NoRequest

\* Time passes between two interactions.
Tick ==
    /\ now + Pause <= StartTime + Horizon
    /\ now' = now + Pause
    /\ UNCHANGED <<user_id, search_results, last_query, current_filters,
                   outreach_count, last_outreach_time, outreach_shown,
                   can_generate_cache, message_cache, lookup_cache, store_cache,
                   outreach_cache, llm_requests, admitted, requests, searches,
                   last_request>>
    /\ UNCHANGED nonChatVars

\* main(), "Ask" pressed with a question: refine_search_candidates, then
\* format_candidate_response on its result.  The filter extraction may fail
\* (an empty result, the filters kept); the rows found depend on the filters
\* the LLM extracted; rank_candidates may fail, and then its NameError ends
\* the script run.
Ask ==
    /\ searches < MaxSearches
    /\ searches' = searches + 1
    /\ \E q \in Queries, refine_ok \in BOOLEAN, rows \in SearchRows, rank_ok \in BOOLEAN :
         /\ search_results' = [set |-> TRUE, rows |-> IF refine_ok THEN rows ELSE <<>>]
         /\ last_query' = q
         /\ current_filters' = IF refine_ok THEN [set |-> TRUE, of |-> q] ELSE current_filters
         /\ llm_requests' =
              (IF refine_ok THEN {FiltersPrompt(q)} ELSE {})
                \cup (IF refine_ok /\ rank_ok THEN RankRequests(q, rows) ELSE {})
    /\ UNCHANGED <<now, user_id, outreach_count, last_outreach_time,
                   outreach_shown, can_generate_cache, message_cache,
                   lookup_cache, store_cache, outreach_cache, admitted,
                   requests, last_request>>
    /\ UNCHANGED nonChatVars

\* main(), "Reset Chat Session" pressed.
ResetChatSession ==
    /\ search_results' = NoSearchResults
    /\ last_query' = ""
    /\ current_filters' = NoFilters
    /\ llm_requests' = {}
    /\ UNCHANGED <<now, user_id, outreach_count, last_outreach_time,
                   outreach_shown, can_generate_cache, message_cache,
                   lookup_cache, store_cache, outreach_cache,
                   admitted, requests, searches, last_request>>
    /\ UNCHANGED nonChatVars

\* format_candidate_response, "Generate Outreach & Questions" pressed for a
\* ranked candidate: the script reruns, rank_candidates succeeds again (the
\* button is rendered), and the button's branch runs.
GenerateOutreachPressed ==
    /\ requests < MaxRequests
    /\ now + RequestSeconds <= StartTime + Horizon
    /\ search_results.set
    /\ \E i \in 1..Len(search_results.rows),
          outcomes \in SessionOutcomes, db_ok \in BOOLEAN :
         LET id == search_results.rows[i]
             key == <<id, last_query>>
             limiter == CanGenerateOutreach(id)
             message == GenerateOutreachMessage(key, outcomes, db_ok)
             ranked == RankRequests(last_query, search_results.rows)
         IN  /\ i <= top_n
             /\ can_generate_cache' = limiter.cache
             /\ IF ~limiter.ret
                THEN \* "Rate limit exceeded. Please try again in an hour."
                     /\ last_request' = [candidate |-> id, source |-> "rejected"]
                     /\ outreach_count' = limiter.count
                     /\ llm_requests' = ranked
                     /\ UNCHANGED <<last_outreach_time, outreach_shown, message_cache,
                                    lookup_cache, store_cache, outreach_cache, admitted>>
                ELSE IF user_id = ""
                THEN \* "Please log in to generate outreach messages"
                     /\ last_request' = [candidate |-> id, source |-> "no_user"]
                     /\ outreach_count' = limiter.count
                     /\ llm_requests' = ranked
                     /\ UNCHANGED <<last_outreach_time, outreach_shown, message_cache,
                                    lookup_cache, store_cache, outreach_cache, admitted>>
                ELSE /\ last_request' = [candidate |-> id, source |-> message.source]
                     /\ admitted' = [admitted EXCEPT ![id] = Append(@, now)]
                     /\ message_cache' = message.message
                     /\ lookup_cache' = message.lookup
                     /\ store_cache' = message.store
                     /\ outreach_cache' = message.rows
                     /\ llm_requests' = ranked \cup message.sent
                     /\ IF message.ret
                        THEN \* update_outreach_count
                             /\ outreach_shown' = outreach_shown \cup {id}
                             /\ last_outreach_time' = [last_outreach_time EXCEPT ![id] = now]
                             /\ outreach_count' = [limiter.count EXCEPT ![id] = @ + 1]
                        ELSE \* "Failed to generate outreach message."
                             /\ outreach_count' = limiter.count
                             /\ UNCHANGED <<last_outreach_time, outreach_shown>>
    /\ requests' = requests + 1
    /\ now' = now + RequestSeconds
    /\ UNCHANGED <<user_id, search_results, last_query, current_filters, searches>>
    /\ UNCHANGED nonChatVars

\* ===========================================================================
\* refine_search_candidates: the keyword queries and the post-filters
\* ===========================================================================

\* ---- bounds of the inputs -------------------------------------------------
MaxBlobLen == 5
ShortBlobLen == 3

\* ---- program constants ----------------------------------------------------
MinPartialLen == 3

\* The characters of blobs, keywords and locations: a letter in both cases
\* and the pipe.
BlobAlphabet == {"a", "A", "|"}

\* str.lower(), and the case folding of ILIKE
LowerChar(c) == IF c = "A" THEN "a" ELSE c

Lower(s) == [i \in 1..Len(s) |-> LowerChar(s[i])]

Blobs == SeqsUpTo(BlobAlphabet, MaxBlobLen)

\* The keywords the filter extraction may return: a short and a long one,
\* each in lower and in mixed case.
RawKeywords ==
    { <<"a">>, <<"A", "a">>, <<"a", "a", "a">>, <<"a", "A", "a">> }

NoYears == [kind |-> "none", val |-> 0]

Years(n) == [kind |-> "num", val |-> n]

\* The filter fields the matcher reads; <<>> is null (role, location) or the
\* empty list.  At most two of the three keyword fields are filled.
KeywordFilters ==
    { f \in [role : {<<>>} \cup RawKeywords,
             related_roles : {<<>>} \cup {<<k>> : k \in RawKeywords},
             required_skills : {<<>>} \cup {<<k>> : k \in RawKeywords}] :
        f.role = <<>> \/ f.related_roles = <<>> \/ f.required_skills = <<>> }

PostFilters ==
    [location : {<<>>, <<"A">>},
     experience_years_min : {NoYears, Years(0), Years(5)}]

\* The columns of a resumes row the matcher reads, besides search_blob.
RowFields ==
    [location : {<<>>, <<"a", "a">>, <<"|">>},
     total_years_experience : {NoYears, Years(0), Years(4), Years(7)}]

\* The post-filter cases run against every keyword filter and every blob: no
\* post-filter, and both post-filters set and passed.
PlainPostCases ==
    { [filter |-> [location |-> <<>>, experience_years_min |-> NoYears],
       row |-> [location |-> <<>>, total_years_experience |-> NoYears]],
      [filter |-> [location |-> <<"A">>, experience_years_min |-> Years(5)],
       row |-> [location |-> <<"a", "a">>, total_years_experience |-> Years(7)]] }

Filters(kf, pf) ==
    [role |-> kf.role, related_roles |-> kf.related_roles,
     required_skills |-> kf.required_skills, location |-> pf.location,
     experience_years_min |-> pf.experience_years_min]

Row(blob, rf) ==
    [search_blob |-> blob, location |-> rf.location,
     total_years_experience |-> rf.total_years_experience]

\* keywords: role, related_roles and required_skills, lowercased
Keywords(f) ==
    (IF f.role # <<>> THEN <<Lower(f.role)>> ELSE <<>>)
        \o [i \in 1..Len(f.related_roles) |-> Lower(f.related_roles[i])]
        \o [i \in 1..Len(f.required_skills) |-> Lower(f.required_skills[i])]

\* ilike('search_blob', '%' + needle + '%'): the blob contains the needle,
\* letter case ignored.  (No modelled character is a LIKE wildcard.)
ILikeContains(blob, needle) == Contains(Lower(blob), Lower(needle))

\* The query made for one keyword: does it select the row?
KeywordQuery(keyword, blob) ==
    IF Len(keyword) >= MinPartialLen
    THEN ILikeContains(blob, keyword)
    ELSE ILikeContains(blob, <<"|">> \o keyword \o <<"|">>)

\* Variant of MatchedIds: a row must be selected by every keyword.
MatchedIdsAll(f, row) ==
    LET keywords == Keywords(f) IN
    IF keywords # <<>>
    THEN IF \A i \in 1..Len(keywords) : KeywordQuery(keywords[i], row.search_blob)
         THEN {"r1"} ELSE {}
    ELSE {"r1"}

\* matched_ids: the ids selected by some keyword's query, or every id when
\* there is no keyword.
MatchedIds(f, row) ==
    LET keywords == Keywords(f) IN
    IF keywords # <<>>
    THEN IF \E i \in 1..Len(keywords) : KeywordQuery(keywords[i], row.search_blob)
         THEN {"r1"} ELSE {}
    ELSE {"r1"}

\* `continue` of the location filter
LocationRejects(f, row) ==
    /\ f.location # <<>>
    /\ (row.location = <<>> \/ ~Contains(Lower(row.location), Lower(f.location)))

\* Is f['experience_years_min'] truthy?
MinTruthy(f) == f.experience_years_min.kind = "num" /\ f.experience_years_min.val # 0

\* Is row['total_years_experience'] truthy?
YearsTruthy(row) == row.total_years_experience.kind = "num" /\ row.total_years_experience.val # 0

\* `continue` of the experience filter
ExperienceRejects(f, row) ==
    /\ MinTruthy(f)
    /\ (~YearsTruthy(row) \/ row.total_years_experience.val < f.experience_years_min.val)

NoMatchFilters ==
    [role |-> <<>>, related_roles |-> <<>>, required_skills |-> <<>>,
     location |-> <<>>, experience_years_min |-> NoYears]

NoMatchRow == [search_blob |-> <<>>, location |-> <<>>, total_years_experience |-> NoYears]

MatchIdle ==
    /\ match_pc = "off"
    /\ match_filters = NoMatchFilters
    /\ match_row = NoMatchRow
    /\ matched_ids = {}
    /\ final_candidates = <<>>

\* The filters have been extracted and have replaced current_filters; the
\* resumes table holds one row, r1.  Explored: every keyword filter against
\* every blob, without post-filters or with both set and passed; and every
\* combination of post-filter and row fields against the short blobs.
MatchStart ==
    /\ match_pc = "input"
    /\ \/ \E kf \in KeywordFilters, blob \in Blobs, post \in PlainPostCases :
              /\ match_filters = Filters(kf, post.filter)
              /\ match_row = Row(blob, post.row)
       \/ \E role \in {<<>>} \cup RawKeywords, blob \in SeqsUpTo(BlobAlphabet, ShortBlobLen),
             pf \in PostFilters, rf \in RowFields :
              /\ match_filters = Filters([role |-> role, related_roles |-> <<>>, required_skills |-> <<>>], pf)
              /\ match_row = Row(blob, rf)
    /\ matched_ids = {}
    /\ final_candidates = <<>>

\* The keyword queries, or the query for all ids.
KeywordSearch ==
    /\ match_pc = "input"
    /\ matched_ids' = MatchedIds(match_filters, match_row)
    /\ match_pc' = "matched"
    /\ UNCHANGED <<match_filters, match_row, final_candidates>>
    /\ UNCHANGED nonMatchVars

\* The rows of the matched ids are fetched and post-filtered; the kept ones
\* are returned.
FetchAndFilter ==
    /\ match_pc = "matched"
    /\ final_candidates' =
         IF "r1" \in matched_ids
            /\ ~LocationRejects(match_filters, match_row)
            /\ ~ExperienceRejects(match_filters, match_row)
         THEN <<"r1">> ELSE <<>>
    /\ match_pc' = "done"
    /\ UNCHANGED <<match_filters, match_row, matched_ids>>
    /\ UNCHANGED nonMatchVars

\* ===========================================================================
\* ResumeProcessor.process_resume_content (src/backend/resume_processor.py)
\* ===========================================================================

\* ---- the inputs -------------------------------------------------------------

\* The file names explored, as texts: supported and unsupported extensions in
\* either case, an extension in the middle of the name, no extension, no name.
FileNames ==
    { <<"a", ".", "p", "d", "f">>,
      <<"a", ".", "P", "D", "F">>,
      <<"a", ".", "P", "d", "f">>,
      <<".", "p", "d", "f">>,
      <<"a", ".", "d", "o", "c", "x">>,
      <<"a", ".", "D", "O", "C", "X">>,
      <<"a", ".", "d", "o", "c">>,
      <<"a", ".", "t", "x", "t">>,
      <<"a", ".", "T", "X", "T">>,
      <<"a", "p", "d", "f">>,
      <<"a", ".", "p", "d", "f", ".", "t", "x", "t">>,
      <<"a", ".", "t", "x", "t", ".", "p", "d", "f">>,
      <<"a", ".", "p", "d", "f", "x">>,
      <<"a", ".">>,
      <<>> }

\* str.lower() on the characters of the file names.
FileLowerChar(c) ==
    CASE c = "P" -> "p"
      [] c = "D" -> "d"
      [] c = "F" -> "f"
      [] c = "O" -> "o"
      [] c = "C" -> "c"
      [] c = "X" -> "x"
      [] c = "T" -> "t"
      [] OTHER -> c

FileLower(s) == [i \in 1..Len(s) |-> FileLowerChar(s[i])]

\* str.endswith(suffix)
EndsWith(s, suffix) ==
    /\ Len(s) >= Len(suffix)
    /\ SubSeq(s, Len(s) - Len(suffix) + 1, Len(s)) = suffix

PdfSuffix == <<".", "p", "d", "f">>

DocxSuffix == <<".", "d", "o", "c", "x">>

\* What the recognizers found in the text, as anonymize_text returns it.
DetectedPii ==
    { [full_name |-> "", email |-> "", phone |-> ""],
      [full_name |-> "Jane Roe", email |-> "", phone |-> ""],
      [full_name |-> "Jane Roe", email |-> "jane@roe.au", phone |-> "0400 000 000"] }

\* personal_info as the model answers: nothing, the placeholders it read in
\* the anonymized text, or values of a person (the anonymizer missed them).
ExtractedPersonalInfo ==
    { [full_name |-> "", email |-> "", phone |-> "", linkedin_url |-> ""],
      [full_name |-> "[NAME]", email |-> "[EMAIL]", phone |-> "[PHONE]", linkedin_url |-> ""],
      [full_name |-> "Jane Roe", email |-> "jane@roe.au", phone |-> "0400 000 000",
       linkedin_url |-> "linkedin.com/in/jane"] }

\* len(summary_statement) as the model answers, 0 for null.
SummaryLengths == {0, MinSummaryLen - 1, MinSummaryLen}

\* The answers of the model: personal_info and additional_info.
Answers ==
    [personal_info : ExtractedPersonalInfo,
     additional_info : [summary_statement : SummaryLengths]]

\* How the chat-completion call of parse_resume ends.
ParseOutcomes == {"ok", "api_error", "invalid_json"}

\* ---- errors -----------------------------------------------------------------

NoError == [type |-> "", message |-> "", arg |-> <<>>]

Error(type, message, arg) == [type |-> type, message |-> message, arg |-> arg]

\* ---- extract_text_from_file -----------------------------------------------

\* The documents explored: the texts the reader extracts, page by page for a
\* PDF, paragraph by paragraph for a DOCX.  "\f" is a form feed.
Documents ==
    { <<>>,
      << <<"a">> >>,
      << <<"a", " ", "a">> >>,
      << <<"a", " ", " ", "a">> >>,
      << <<"a", "\f", "a">> >>,
      << <<"a">>, <<"a">> >> }

RECURSIVE PdfText(_)
\* text = ""; for page in reader.pages: text += page.extract_text() + "\n"
PdfText(pages) ==
    IF pages = <<>> THEN <<>>
    ELSE PdfText(SubSeq(pages, 1, Len(pages) - 1)) \o pages[Len(pages)] \o <<"\n">>

RECURSIVE DocxText(_)
\* docx2txt.process: the paragraphs, each followed by a line break
DocxText(paragraphs) ==
    IF paragraphs = <<>> THEN <<>>
    ELSE DocxText(SubSeq(paragraphs, 1, Len(paragraphs) - 1))
             \o paragraphs[Len(paragraphs)] \o <<"\n">>

\* read_pdf / read_docx: the text, or an Exception for a file the reader
\* cannot open.
ReadFile(kind, readable, document) ==
    IF readable
    THEN [raised |-> FALSE, error |-> NoError,
          text |-> IF kind = "pdf" THEN PdfText(document) ELSE DocxText(document)]
    ELSE [raised |-> TRUE,
          error |-> Error("Exception",
                          IF kind = "pdf" THEN "Error reading PDF file: "
                                          ELSE "Error reading DOCX file: ", <<>>),
          text |-> <<>>]

\* The same with every other name handed to the PDF reader.
extract_text_from_file_any(name, readable, document) ==
    IF EndsWith(FileLower(name), DocxSuffix)
    THEN ReadFile("docx", readable, document)
    ELSE ReadFile("pdf", readable, document)

\* The text the reader returned is returned as it is.
extract_text_from_file(name, readable, document) ==
    IF EndsWith(FileLower(name), PdfSuffix)
    THEN ReadFile("pdf", readable, document)
    ELSE IF EndsWith(FileLower(name), DocxSuffix)
    THEN ReadFile("docx", readable, document)
    ELSE [raised |-> TRUE,
          error |-> Error("ValueError", "Unsupported file format: ", name),
          text |-> <<>>]

\* ---- OpenAIClient.parse_resume ----------------------------------------------

\* The methods class OpenAIClient defines.
OpenAIClientMethods ==
    {"__init__", "parse_resume", "extract_query_filters", "rank_candidates", "generate_outreach"}

NoPersonalInfo == [full_name |-> "", email |-> "", phone |-> "", linkedin_url |-> ""]

NoStructuredData ==
    [set |-> FALSE, default |-> FALSE, personal_info |-> NoPersonalInfo,
     additional_info |-> [summary_statement |-> 0]]

\* default_structure: every string None.
DefaultStructure ==
    [set |-> TRUE, default |-> TRUE, personal_info |-> NoPersonalInfo,
     additional_info |-> [summary_statement |-> 0]]

\* The answer with the sections the model returned; the merge with
\* default_structure fills the sections it left out.
Structured(answer) ==
    [set |-> TRUE, default |-> FALSE, personal_info |-> answer.personal_info,
     additional_info |-> answer.additional_info]

\* The same with the handler returning the default structure.
parse_resume_default(outcome, answer) ==
    IF outcome = "ok"
    THEN [raised |-> FALSE, error |-> NoError, value |-> Structured(answer)]
    ELSE [raised |-> FALSE, error |-> NoError, value |-> DefaultStructure]

\* parse_resume: the answer merged with the defaults; when the call or
\* json.loads raises, the handler logs through logger and returns the default
\* structure, and the module defines no logger.
parse_resume(outcome, answer) ==
    IF outcome = "ok"
    THEN [raised |-> FALSE, error |-> NoError, value |-> Structured(answer)]
    ELSE IF LoggerDefined
    THEN [raised |-> FALSE, error |-> NoError, value |-> DefaultStructure]
    ELSE [raised |-> TRUE,
          error |-> Error("NameError", "name 'logger' is not defined", <<>>),
          value |-> NoStructuredData]

\* ---- the profile record -----------------------------------------------------

\* work_experience of parsed_data for an answer without that section: the
\* defaults of default_structure.  The dict has no key summary_statement.
DefaultWorkExperience ==
    [total_years_experience |-> [kind |-> "num", val |-> 0],
     current_or_last_job_title |-> "",
     previous_job_titles |-> <<>>,
     companies_worked_at |-> 0]

NoParsedData ==
    [set |-> FALSE, default |-> FALSE, personal_info |-> NoPersonalInfo,
     work_experience |-> DefaultWorkExperience,
     additional_info |-> [summary_statement |-> 0]]

\* The same with the three fields taken from the extraction.
BuildParsedDataUnmasked(sd) ==
    [set |-> TRUE, default |-> sd.default,
     personal_info |-> [full_name |-> sd.personal_info.full_name,
                        email |-> sd.personal_info.email,
                        phone |-> sd.personal_info.phone,
                        linkedin_url |-> sd.personal_info.linkedin_url],
     work_experience |-> DefaultWorkExperience,
     additional_info |-> [summary_statement |-> sd.additional_info.summary_statement]]

\* parsed_data: the three PII fields are literals, linkedin_url is copied;
\* summary_statement is stored under additional_info.
BuildParsedData(sd) ==
    [set |-> TRUE, default |-> sd.default,
     personal_info |-> [full_name |-> "[NAME]",
                        email |-> "[EMAIL]",
                        phone |-> "[PHONE]",
                        linkedin_url |-> sd.personal_info.linkedin_url],
     work_experience |-> DefaultWorkExperience,
     additional_info |-> [summary_statement |-> sd.additional_info.summary_statement]]

\* dict.get(key, default) on a record.
Get(dict, key, default) == IF key \in DOMAIN dict THEN dict[key] ELSE default

\* The fields calculate_risk_score reads in parsed_data, each where the
\* scorer looks for it: location is the city (None for an answer without
\* location), summary_statement is work_experience.get('summary_statement', '').
ScorerView(pd) ==
    [email |-> pd.personal_info.email,
     phone |-> pd.personal_info.phone,
     location |-> "",
     education |-> 0,
     previous_job_titles |-> pd.work_experience.previous_job_titles,
     skills |-> 0,
     total_years_experience |-> pd.work_experience.total_years_experience,
     companies_worked_at |-> pd.work_experience.companies_worked_at,
     summary_statement |-> Get(pd.work_experience, "summary_statement", 0),
     degree_level |-> <<>>,
     current_or_last_job_title |-> pd.work_experience.current_or_last_job_title]

\* The row store_resume_data inserts for data['parsed_data'].
ResumeRow(id, name, pd) == [id |-> id, file_name |-> name, parsed_data |-> pd]

\* The row store_pii_data inserts.
PiiRow(id, pii) ==
    [resume_id |-> id, full_name |-> pii.full_name, email |-> pii.email, phone |-> pii.phone]

\* ---- state ------------------------------------------------------------------

IngestIdle ==
    /\ ing_pc = "off"
    /\ file_name = <<>>
    /\ file_readable = FALSE
    /\ file_document = <<>>
    /\ ing_text = <<>>
    /\ ing_pii_data = [full_name |-> "", email |-> "", phone |-> ""]
    /\ parse_outcome = ""
    /\ structured_data = NoStructuredData
    /\ ing_parsed_data = NoParsedData
    /\ ing_risk = NoResult
    /\ ing_error = NoError
    /\ anonymize_calls = 0
    /\ llm_calls = 0
    /\ resumes = <<>>
    /\ resumes_pii_rows = <<>>

\* process_resume_content(file_content, file_name) is called on empty tables.
IngestStart ==
    /\ ing_pc = "start"
    /\ file_name \in FileNames
    /\ file_readable \in BOOLEAN
    /\ file_document \in Documents
    /\ ing_text = <<>>
    /\ ing_pii_data = [full_name |-> "", email |-> "", phone |-> ""]
    /\ parse_outcome = ""
    /\ structured_data = NoStructuredData
    /\ ing_parsed_data = NoParsedData
    /\ ing_risk = NoResult
    /\ ing_error = NoError
    /\ anonymize_calls = 0
    /\ llm_calls = 0
    /\ resumes = <<>>
    /\ resumes_pii_rows = <<>>

\* text = self.extract_text_from_file(file_content, file_name); an exception
\* is logged and re-raised by both handlers.
IngestExtractText ==
    /\ ing_pc = "start"
    /\ LET r == extract_text_from_file(file_name, file_readable, file_document)
       IN  /\ ing_pc' = IF r.raised THEN "failed" ELSE "extracted"
           /\ ing_error' = r.error
           /\ ing_text' = r.text
    /\ UNCHANGED <<file_name, file_readable, file_document, ing_pii_data, parse_outcome,
                   structured_data, ing_parsed_data, ing_risk, anonymize_calls, llm_calls,
                   resumes, resumes_pii_rows>>
    /\ UNCHANGED nonIngestVars

\* anonymized_text, pii_data = self.pii_processor.anonymize_text(text)
IngestAnonymize ==
    /\ ing_pc = "extracted"
    /\ \E pii \in DetectedPii : ing_pii_data' = pii
    /\ anonymize_calls' = anonymize_calls + 1
    /\ ing_pc' = "anonymized"
    /\ UNCHANGED <<file_name, file_readable, file_document, ing_text,
                   parse_outcome, structured_data, ing_parsed_data,
                   ing_risk, ing_error, llm_calls, resumes, resumes_pii_rows>>
    /\ UNCHANGED nonIngestVars

\* structured_data = self.openai.parse_resume(llm_input["resume_text"])
IngestParseResume ==
    /\ ing_pc = "anonymized"
    /\ \E outcome \in ParseOutcomes, answer \in Answers :
         LET r == parse_resume(outcome, answer)
         IN  /\ parse_outcome' = outcome
             /\ structured_data' = r.value
             /\ ing_error' = r.error
             /\ ing_pc' = IF r.raised THEN "failed" ELSE "parsed"
    /\ llm_calls' = llm_calls + 1
    /\ UNCHANGED <<file_name, file_readable, file_document, ing_text,
                   ing_pii_data, ing_parsed_data, ing_risk,
                   anonymize_calls, resumes, resumes_pii_rows>>
    /\ UNCHANGED nonIngestVars

\* parsed_data = {...} and calculate_risk_score(parsed_data), which never
\* raises.
IngestBuildParsedData ==
    /\ ing_pc = "parsed"
    /\ ing_parsed_data' = BuildParsedData(structured_data)
    /\ ing_risk' = calculate_risk_score(ScorerView(ing_parsed_data'))
    /\ ing_pc' = "built"
    /\ UNCHANGED <<file_name, file_readable, file_document, ing_text,
                   ing_pii_data, parse_outcome, structured_data,
                   ing_error, anonymize_calls, llm_calls, resumes, resumes_pii_rows>>
    /\ UNCHANGED nonIngestVars

\* search_blob = self.openai.generate_text(...), store_resume_data(data),
\* store_pii_data(result['id'], pii_data), return result.  An insert that
\* fails raises.
IngestStore ==
    /\ ing_pc = "built"
    /\ IF "generate_text" \notin OpenAIClientMethods
       THEN /\ ing_pc' = "failed"
            /\ ing_error' = Error("AttributeError",
                                  "'OpenAIClient' object has no attribute 'generate_text'", <<>>)
            /\ UNCHANGED <<llm_calls, resumes, resumes_pii_rows>>
       ELSE \E resume_stored \in BOOLEAN, pii_stored \in BOOLEAN :
            /\ llm_calls' = llm_calls + 1
            /\ resumes' = IF resume_stored
                          THEN Append(resumes, ResumeRow("r1", file_name, ing_parsed_data))
                          ELSE resumes
            /\ resumes_pii_rows' = IF resume_stored /\ pii_stored
                                   THEN Append(resumes_pii_rows, PiiRow("r1", ing_pii_data))
                                   ELSE resumes_pii_rows
            /\ ing_pc' = IF resume_stored /\ pii_stored THEN "returned" ELSE "failed"
            /\ ing_error' = IF resume_stored /\ pii_stored THEN NoError
                            ELSE IF resume_stored
                            THEN Error("Exception", "insert into resumes_pii failed", <<>>)
                            ELSE Error("Exception", "Failed to store resume data", <<>>)
    /\ UNCHANGED <<file_name, file_readable, file_document, ing_text,
                   ing_pii_data, parse_outcome, structured_data,
                   ing_parsed_data, ing_risk, anonymize_calls>>
    /\ UNCHANGED nonIngestVars

\* ===========================================================================
\* process_single_upload and process_bulk_upload (src/pages/upload.py)
\* ===========================================================================

\* ---- bounds of the inputs -------------------------------------------------

MaxFiles == 4

\* ---- program constants ----------------------------------------------------

upload_max_retries == 3

batch_size == 10

\* The names the module binds: its imports and its functions.
UploadGlobals ==
    {"st", "os", "Path", "sys", "logging", "lru_cache", "logger",
     "get_supabase_client", "get_resume_processor", "initialize_session_state",
     "get_file_uploader", "file_uploader_with_reset", "process_single_upload",
     "process_bulk_upload", "main"}

NameDefined(name) == name \in UploadGlobals

\* ---- the inputs -------------------------------------------------------------

\* What process_resume_content does with a file, attempt after attempt: it
\* returns the stored row every time, raises once and then returns, or raises
\* every time.
FileKinds == {"good", "flaky", "bad"}

\* The uploaded files; file i has the name i.
UploadLists == SeqsUpTo(FileKinds, MaxFiles)

ProcessRaises(kind, attempt) ==
    \/ kind = "bad"
    \/ kind = "flaky" /\ attempt = 1

UploadNameError(name) == Error("NameError", "name is not defined", <<name>>)

\* ---- process_single_upload ------------------------------------------------

\* The loop from the attempt after retry_count failures: the try block needs
\* concurrent.futures, the handler needs time.sleep before the next attempt.
\* The sleeps change no state and are left out.
RECURSIVE SingleUploadFrom(_, _)
SingleUploadFrom(kind, retry_count) ==
    IF retry_count >= upload_max_retries
    THEN [raised |-> FALSE, error |-> NoError, result |-> FALSE, calls |-> 0]
    ELSE IF NameDefined("concurrent") /\ ~ProcessRaises(kind, retry_count + 1)
    THEN [raised |-> FALSE, error |-> NoError, result |-> TRUE, calls |-> 1]
    ELSE LET called == IF NameDefined("concurrent") THEN 1 ELSE 0
         IN  IF retry_count + 1 = upload_max_retries
             THEN [raised |-> FALSE, error |-> NoError, result |-> FALSE, calls |-> called]
             ELSE IF ~NameDefined("time")
             THEN [raised |-> TRUE, error |-> UploadNameError("time"),
                   result |-> FALSE, calls |-> called]
             ELSE LET rest == SingleUploadFrom(kind, retry_count + 1)
                  IN  [rest EXCEPT !.calls = @ + called]

process_single_upload(kind) == SingleUploadFrom(kind, 0)

\* ---- process_bulk_upload --------------------------------------------------

NoUploadResults == [raised |-> FALSE, error |-> NoError, results |-> <<>>, calls |-> 0]

\* (file.name, bool(result)), or (file.name, False) when the future raised.
ResultEntry(name, r) == [name |-> name, success |-> ~r.raised /\ r.result]

\* The entries of the batch uploaded_files[first..last], in the order of
\* submission (as_completed yields them in the order of completion).
BatchEntries(files, first, last) ==
    [k \in 1..(last - first + 1) |->
        ResultEntry(first + k - 1, process_single_upload(files[first + k - 1]))]

RECURSIVE BatchCalls(_, _, _)
BatchCalls(files, first, last) ==
    IF first > last THEN 0
    ELSE process_single_upload(files[first]).calls + BatchCalls(files, first + 1, last)

Min(a, b) == IF a <= b THEN a ELSE b

\* The loop over the batches, from the batch that starts after i files.
RECURSIVE BulkUploadFrom(_, _, _)
BulkUploadFrom(files, i, acc) ==
    IF i >= Len(files)
    THEN acc
    ELSE IF ~NameDefined("multiprocessing")
    THEN [acc EXCEPT !.raised = TRUE, !.error = UploadNameError("multiprocessing")]
    ELSE IF ~NameDefined("concurrent")
    THEN [acc EXCEPT !.raised = TRUE, !.error = UploadNameError("concurrent")]
    ELSE LET last == Min(i + batch_size, Len(files))
         IN  BulkUploadFrom(files, i + batch_size,
                 [acc EXCEPT !.results = @ \o BatchEntries(files, i + 1, last),
                             !.calls = @ + BatchCalls(files, i + 1, last)])

process_bulk_upload(files) == BulkUploadFrom(files, 0, NoUploadResults)

\* ---- state ------------------------------------------------------------------

UploadIdle ==
    /\ up_pc = "off"
    /\ upload_mode = ""
    /\ uploaded_files = <<>>
    /\ upload_results = <<>>
    /\ upload_result = FALSE
    /\ upload_error = NoError
    /\ process_calls = 0

\* One of the two buttons of the upload page has been pressed: "Process
\* Single Upload" with one file, "Process Bulk Upload" with a list of files.
UploadStart ==
    /\ up_pc = "pressed"
    /\ \/ upload_mode = "single" /\ uploaded_files \in [1..1 -> FileKinds]
       \/ upload_mode = "bulk" /\ uploaded_files \in UploadLists
    /\ upload_results = <<>>
    /\ upload_result = FALSE
    /\ upload_error = NoError
    /\ process_calls = 0

\* result = process_single_upload(uploaded_file.getvalue(), ...)
ProcessSingleUpload ==
    /\ up_pc = "pressed"
    /\ upload_mode = "single"
    /\ LET r == process_single_upload(uploaded_files[1])
       IN  /\ up_pc' = IF r.raised THEN "raised" ELSE "returned"
           /\ upload_result' = r.result
           /\ upload_error' = r.error
           /\ process_calls' = r.calls
    /\ UNCHANGED <<upload_mode, uploaded_files, upload_results>>
    /\ UNCHANGED nonUploadVars

\* results = process_bulk_upload(uploaded_files)
ProcessBulkUpload ==
    /\ up_pc = "pressed"
    /\ upload_mode = "bulk"
    /\ LET r == process_bulk_upload(uploaded_files)
       IN  /\ up_pc' = IF r.raised THEN "raised" ELSE "returned"
           /\ upload_results' = IF r.raised THEN <<>> ELSE r.results
           /\ upload_error' = r.error
           /\ process_calls' = r.calls
    /\ UNCHANGED <<upload_mode, uploaded_files, upload_result>>
    /\ UNCHANGED nonUploadVars

\* ===========================================================================
\* The two-tier resume cache of SupabaseClient
\* (src/backend/supabase_client.py)
\* ===========================================================================

\* ---- the inputs -------------------------------------------------------------

FileHashes == {"h1", "h2"}

CachedData == {"d1", "d2"}

\* No key in the dict, no row in the table; also the None that is returned.
Absent == "none"

EmptyCache == [h \in FileHashes |-> Absent]

NoCacheCall ==
    [op |-> "", file_hash |-> "", data |-> Absent, local_hit |-> FALSE,
     durable_read |-> FALSE, durable_write |-> FALSE, failed |-> FALSE, returned |-> Absent]

\* ---- get_cached_resume_data -----------------------------------------------

\* The call on the local dict `local` and the table `table`; read_ok: the
\* select succeeds.  An exception is logged and None is returned.
get_cached_resume_data(local, table, file_hash, read_ok) ==
    IF local[file_hash] # Absent
    THEN [local |-> local, returned |-> local[file_hash], local_hit |-> TRUE,
          durable_read |-> FALSE, failed |-> FALSE]
    ELSE IF ~read_ok
    THEN [local |-> local, returned |-> Absent, local_hit |-> FALSE,
          durable_read |-> TRUE, failed |-> TRUE]
    ELSE IF table[file_hash] # Absent
    THEN [local |-> [local EXCEPT ![file_hash] = table[file_hash]],
          returned |-> table[file_hash], local_hit |-> FALSE,
          durable_read |-> TRUE, failed |-> FALSE]
    ELSE [local |-> local, returned |-> Absent, local_hit |-> FALSE,
          durable_read |-> TRUE, failed |-> FALSE]

\* ---- cache_resume_data ------------------------------------------------------

\* The same with the dict written after the upsert.
cache_resume_data_table_first(local, table, file_hash, data, write_ok) ==
    IF write_ok
    THEN [local |-> [local EXCEPT ![file_hash] = data],
          table |-> [table EXCEPT ![file_hash] = data], failed |-> FALSE]
    ELSE [local |-> local, table |-> table, failed |-> TRUE]

\* The dict is written first, then the row is upserted; write_ok: the upsert
\* succeeds.  An exception is logged and swallowed.
cache_resume_data(local, table, file_hash, data, write_ok) ==
    [local |-> [local EXCEPT ![file_hash] = data],
     table |-> IF write_ok THEN [table EXCEPT ![file_hash] = data] ELSE table,
     failed |-> ~write_ok]

\* ---- state ------------------------------------------------------------------

CacheIdle ==
    /\ cache_pc = "off"
    /\ local_cache = EmptyCache
    /\ resume_cache = EmptyCache
    /\ client_cached = EmptyCache
    /\ cache_call = NoCacheCall

\* A SupabaseClient has been constructed: self._local_cache = {}.  The
\* resume_cache table holds what earlier processes left in it.
CacheStart ==
    /\ cache_pc = "on"
    /\ local_cache = EmptyCache
    /\ resume_cache \in [FileHashes -> CachedData \cup {Absent}]
    /\ client_cached = EmptyCache
    /\ cache_call = NoCacheCall

GetCachedResumeData ==
    /\ cache_pc = "on"
    /\ \E file_hash \in FileHashes, read_ok \in BOOLEAN :
         LET r == get_cached_resume_data(local_cache, resume_cache, file_hash, read_ok)
         IN  /\ local_cache' = r.local
             /\ cache_call' = [op |-> "get", file_hash |-> file_hash, data |-> Absent,
                               local_hit |-> r.local_hit, durable_read |-> r.durable_read,
                               durable_write |-> FALSE, failed |-> r.failed,
                               returned |-> r.returned]
    /\ UNCHANGED <<cache_pc, resume_cache, client_cached>>
    /\ UNCHANGED nonCacheVars

CacheResumeData ==
    /\ cache_pc = "on"
    /\ \E file_hash \in FileHashes, data \in CachedData, write_ok \in BOOLEAN :
         LET r == cache_resume_data(local_cache, resume_cache, file_hash, data, write_ok)
         IN  /\ local_cache' = r.local
             /\ resume_cache' = r.table
             /\ client_cached' = [client_cached EXCEPT ![file_hash] = data]
             /\ cache_call' = [op |-> "cache", file_hash |-> file_hash, data |-> data,
                               local_hit |-> FALSE, durable_read |-> FALSE,
                               durable_write |-> ~r.failed, failed |-> r.failed,
                               returned |-> Absent]
    /\ UNCHANGED cache_pc
    /\ UNCHANGED nonCacheVars

\* Another process upserts or deletes a row of resume_cache.
OtherClientWrites ==
    /\ cache_pc = "on"
    /\ \E file_hash \in FileHashes, data \in CachedData \cup {Absent} :
         /\ resume_cache[file_hash] # data
         /\ resume_cache' = [resume_cache EXCEPT ![file_hash] = data]
    /\ cache_call' = NoCacheCall
    /\ UNCHANGED <<cache_pc, local_cache, client_cached>>
    /\ UNCHANGED nonCacheVars

\* ===========================================================================
\* extract_pii over recognizer results with their offsets
\* (src/backend/pii_processor.py)
\* ===========================================================================

\* ---- bounds of the inputs -------------------------------------------------
MaxSpans == 2

\* ---- the inputs -------------------------------------------------------------

\* The texts: words, blanks, the separators of a location and the '#' of a
\* unit number.  Two overlapping two-word names start at offsets 0 and 1 of
\* the first; the others hold locations of one, two and three components.
SpanTexts ==
    { <<"a", " ", "a", " ", "a">>,
      <<"a", ",", "a", " ", "a">>,
      <<"a", ",", "a", ",", "a">>,
      <<"a", " ", "a", ";", "a">>,
      <<"a", "#", "a", ",", "a">> }

\* A RecognizerResult: entity_type, start and end (text[start:end]).
RecognizerResults(t) ==
    {r \in [entity_type : EntityTypes, start : 0..(Len(t) - 1), end : 1..Len(t)] :
        r.start < r.end}

\* text[result.start:result.end]
SpanValue(t, r) == SubSeq(t, r.start + 1, r.end)

\* ---- extract_pii ------------------------------------------------------------

SpansIdle ==
    /\ sp_pc = "off"
    /\ sp_text = <<>>
    /\ sp_results = <<>>
    /\ sp_pii_data = EmptyPii
    /\ sp_detected_names = <<>>

\* extract_pii is called on a text; analyzer.analyze has returned.
SpansStart ==
    /\ sp_pc = "loop"
    /\ sp_text \in SpanTexts
    /\ sp_results = <<>>
    /\ sp_pii_data = EmptyPii
    /\ sp_detected_names = <<>>

\* The analyzer raised: the except branch returns the empty record.
SpansAnalyzerFails ==
    /\ sp_pc = "loop"
    /\ sp_results = <<>>
    /\ sp_pc' = "done"
    /\ sp_pii_data' = EmptyPii
    /\ UNCHANGED <<sp_text, sp_results, sp_detected_names>>
    /\ UNCHANGED nonSpansVars

\* One iteration of `for result in results`, on the next result of the
\* recognizer's list: any entity type on any span, in any order.
SpansResult ==
    /\ sp_pc = "loop"
    /\ Len(sp_results) < MaxSpans
    /\ \E result \in RecognizerResults(sp_text) :
         LET value == SpanValue(sp_text, result) IN
         /\ sp_results' = Append(sp_results, result)
         /\ sp_pii_data' = ProcessResult(sp_pii_data, result.entity_type, value)
         /\ sp_detected_names' =
              IF result.entity_type = "PERSON" /\ is_valid_name(value)
              THEN Append(sp_detected_names, value)
              ELSE sp_detected_names
    /\ UNCHANGED <<sp_pc, sp_text>>
    /\ UNCHANGED nonSpansVars

\* The results are exhausted: the name is picked and the record returned.
SpansReturn ==
    /\ sp_pc = "loop"
    /\ sp_pc' = "done"
    /\ sp_pii_data' = WithFullName(sp_pii_data, sp_detected_names)
    /\ UNCHANGED <<sp_text, sp_results, sp_detected_names>>
    /\ UNCHANGED nonSpansVars

\* ===========================================================================
\* The outreach cache of SupabaseClient (src/backend/supabase_client.py)
\* ===========================================================================

\* ---- bounds of the inputs -------------------------------------------------

\* The last day of the modelled time line (time is counted in days).
MaxDay == 9

\* ---- program constants ----------------------------------------------------

\* timedelta(days=7)
OutreachCacheDays == 7

\* ---- the inputs -------------------------------------------------------------

OutreachCandidates == {"c1"}

OutreachQueries == {"q1", "q2"}

OutreachData == {"m1", "m2"}

\* hashlib.md5(query.encode()).hexdigest(): a digest per query, distinct for
\* the two queries.
QueryHash(query) == CASE query = "q1" -> "md5-q1" [] query = "q2" -> "md5-q2"

OutreachKeys == {<<c, QueryHash(q)>> : c \in OutreachCandidates, q \in OutreachQueries}

NoOutreachRow == [present |-> FALSE, outreach_data |-> Absent, created_at |-> 0, expires_at |-> 0]

EmptyOutreachTable == [k \in OutreachKeys |-> NoOutreachRow]

NoOutreachCall ==
    [op |-> "", candidate_id |-> "", query |-> "", failed |-> FALSE, returned |-> Absent]

\* ---- cache_outreach_message -----------------------------------------------

\* The row built at time `at` (datetime.now(timezone.utc)).
CacheData(outreach_data, at) ==
    [present |-> TRUE, outreach_data |-> outreach_data, created_at |-> at,
     expires_at |-> at + OutreachCacheDays]

\* upsert(cache_data): the row of the same candidate and query hash is
\* replaced, or the row is added.
Upsert(table, candidate_id, query, outreach_data, at) ==
    [table EXCEPT ![<<candidate_id, QueryHash(query)>>] = CacheData(outreach_data, at)]

\* ---- get_cached_outreach --------------------------------------------------

\* select('*').eq('candidate_id', ...).eq('query_hash', ...)
\*     .lt('expires_at', now): the rows whose expires_at is less than now.
SelectedRows(table, candidate_id, query, at) ==
    {k \in OutreachKeys :
        /\ k = <<candidate_id, QueryHash(query)>>
        /\ table[k].present
        /\ table[k].expires_at < at}

\* response.data[0]['outreach_data'] if response.data else None; an
\* exception is logged and None is returned.
get_cached_outreach(table, candidate_id, query, at, read_ok) ==
    LET rows == SelectedRows(table, candidate_id, query, at) IN
    IF read_ok /\ rows # {}
    THEN table[CHOOSE k \in rows : TRUE].outreach_data
    ELSE Absent

\* ---- state ------------------------------------------------------------------

OutreachIdle ==
    /\ oc_pc = "off"
    /\ oc_now = 0
    /\ outreach_cache_table = EmptyOutreachTable
    /\ oc_call = NoOutreachCall

\* A client over an empty outreach_cache table.
OutreachStart ==
    /\ oc_pc = "on"
    /\ oc_now = 0
    /\ outreach_cache_table = EmptyOutreachTable
    /\ oc_call = NoOutreachCall

\* cache_outreach_message(candidate_id, query, outreach_data); write_ok: the
\* upsert succeeds.  An exception is logged and False is returned.
ClientCacheOutreachMessage ==
    /\ oc_pc = "on"
    /\ \E c \in OutreachCandidates, q \in OutreachQueries, d \in OutreachData,
          write_ok \in BOOLEAN :
         /\ outreach_cache_table' =
              IF write_ok THEN Upsert(outreach_cache_table, c, q, d, oc_now)
              ELSE outreach_cache_table
         /\ oc_call' = [op |-> "cache", candidate_id |-> c, query |-> q,
                        failed |-> ~write_ok, returned |-> Absent]
    /\ UNCHANGED <<oc_pc, oc_now>>
    /\ UNCHANGED nonOutreachVars

\* get_cached_outreach(candidate_id, query); read_ok: the select succeeds.
ClientGetCachedOutreach ==
    /\ oc_pc = "on"
    /\ \E c \in OutreachCandidates, q \in OutreachQueries, read_ok \in BOOLEAN :
         oc_call' = [op |-> "get", candidate_id |-> c, query |-> q,
                     failed |-> ~read_ok,
                     returned |-> get_cached_outreach(outreach_cache_table, c, q,
                                                      oc_now, read_ok)]
    /\ UNCHANGED <<oc_pc, oc_now, outreach_cache_table>>
    /\ UNCHANGED nonOutreachVars

\* A day passes.
OutreachDayPasses ==
    /\ oc_pc = "on"
    /\ oc_now < MaxDay
    /\ oc_now' = oc_now + 1
    /\ UNCHANGED <<oc_pc, outreach_cache_table, oc_call>>
    /\ UNCHANGED nonOutreachVars

\* ===========================================================================
\* Specifications
\* ===========================================================================

InitRisk == RiskInput /\ GenIdle /\ PiiIdle /\ ChatIdle /\ MatchIdle /\ IngestIdle /\ UploadIdle /\ CacheIdle /\ SpansIdle /\ OutreachIdle

NextRisk ==
    \/ CalculateRiskScore
    \/ CalculateRiskScoreWithDuplicate

SpecRisk == InitRisk /\ [][NextRisk]_vars

InitGen == GenStart /\ RiskIdle /\ PiiIdle /\ ChatIdle /\ MatchIdle /\ IngestIdle /\ UploadIdle /\ CacheIdle /\ SpansIdle /\ OutreachIdle

NextGen ==
    \/ GenerateOutreachCall
    \/ GenerateOutreachRequest
    \/ GenerateOutreachValidate

SpecGen == InitGen /\ [][NextGen]_vars

InitPII == PiiStart /\ RiskIdle /\ GenIdle /\ ChatIdle /\ MatchIdle /\ IngestIdle /\ UploadIdle /\ CacheIdle /\ SpansIdle /\ OutreachIdle

NextPII ==
    \/ ExtractPiiAnalyze
    \/ ExtractPiiFails
    \/ ExtractPiiResult
    \/ AnonymizeText

SpecPII == InitPII /\ [][NextPII]_vars

InitMatch == MatchStart /\ RiskIdle /\ GenIdle /\ PiiIdle /\ ChatIdle /\ IngestIdle /\ UploadIdle /\ CacheIdle /\ SpansIdle /\ OutreachIdle

NextMatch ==
    \/ KeywordSearch
    \/ FetchAndFilter

SpecMatch == InitMatch /\ [][NextMatch]_vars

InitIngest == IngestStart /\ RiskIdle /\ GenIdle /\ PiiIdle /\ ChatIdle /\ MatchIdle /\ UploadIdle /\ CacheIdle /\ SpansIdle /\ OutreachIdle

NextIngest ==
    \/ IngestExtractText
    \/ IngestAnonymize
    \/ IngestParseResume
    \/ IngestBuildParsedData
    \/ IngestStore

SpecIngest == InitIngest /\ [][NextIngest]_vars

InitUpload == UploadStart /\ RiskIdle /\ GenIdle /\ PiiIdle /\ ChatIdle /\ MatchIdle /\ IngestIdle /\ CacheIdle /\ SpansIdle /\ OutreachIdle

NextUpload ==
    \/ ProcessSingleUpload
    \/ ProcessBulkUpload

SpecUpload == InitUpload /\ [][NextUpload]_vars

InitCache ==
    /\ CacheStart /\ RiskIdle /\ GenIdle /\ PiiIdle /\ ChatIdle /\ MatchIdle
    /\ IngestIdle /\ UploadIdle /\ SpansIdle /\ OutreachIdle

NextCache ==
    \/ GetCachedResumeData
    \/ CacheResumeData
    \/ OtherClientWrites

SpecCache == InitCache /\ [][NextCache]_vars

InitSpans ==
    /\ SpansStart /\ RiskIdle /\ GenIdle /\ PiiIdle /\ ChatIdle /\ MatchIdle
    /\ IngestIdle /\ UploadIdle /\ CacheIdle /\ OutreachIdle

NextSpans ==
    \/ SpansAnalyzerFails
    \/ SpansResult
    \/ SpansReturn

SpecSpans == InitSpans /\ [][NextSpans]_vars

InitOutreach ==
    /\ OutreachStart /\ RiskIdle /\ GenIdle /\ PiiIdle /\ ChatIdle /\ MatchIdle
    /\ IngestIdle /\ UploadIdle /\ CacheIdle /\ SpansIdle

NextOutreach ==
    \/ ClientCacheOutreachMessage
    \/ ClientGetCachedOutreach
    \/ OutreachDayPasses

SpecOutreach == InitOutreach /\ [][NextOutreach]_vars

Init == ChatStart /\ RiskIdle /\ GenIdle /\ PiiIdle /\ MatchIdle /\ IngestIdle /\ UploadIdle /\ CacheIdle /\ SpansIdle /\ OutreachIdle

Next ==
    \/ Tick
    \/ Ask
    \/ ResetChatSession
    \/ GenerateOutreachPressed

Spec == Init /\ [][Next]_vars

\* ---------------------------------------------------------------------------
\* Claims about calculate_risk_score
\* ---------------------------------------------------------------------------

\* C8: for every profile, the returned risk_score is an integer between 0 and
\* 10, whatever combination of the eight penalty rules fires.
C8_ScoreWithinScale ==
    risk_pc # "input" => risk_result.risk_score \in 0..ScaleMax

\* C8 witness: a profile on which all eight rules fire has been scored.
C8_AllRulesFire ==
    /\ risk_pc = "scored"
    /\ RuleMissingInfo(parsed_data) /\ RuleOverlap(parsed_data)
    /\ RuleSkillDensity(parsed_data) /\ RuleShortStints(parsed_data)
    /\ RuleTitleProgression(parsed_data) /\ RuleInsufficientDetail(parsed_data)
    /\ RuleEducationMismatch(parsed_data) /\ RuleRapidProgression(parsed_data)
    /\ risk_result.risk_score = ScaleMax

\* C9: for every well-typed profile, the first element of the returned issues
\* is the line "Risk Level: <Low|Medium|High|Very High> (<score>/10)" whose
\* score is the returned risk_score.
C9_FirstIssueIsRiskLevel ==
    (risk_pc # "input" /\ WellTyped(parsed_data)) =>
        /\ Len(risk_result.issues) >= 1
        /\ risk_result.issues[1].msg = "Risk Level"
        /\ risk_result.issues[1].level \in {"Low", "Medium", "High", "Very High"}
        /\ risk_result.issues[1].score = risk_result.risk_score

\* C9 witness: a well-typed profile has been scored High with several issue
\* lines after the summary line.
C9_ScoredHighWithIssues ==
    /\ risk_pc = "scored"
    /\ WellTyped(parsed_data)
    /\ Len(risk_result.issues) >= 4
    /\ risk_result.issues[1].level = "High"
    /\ risk_result.risk_score >= HighFrom

\* C10: when previous_job_titles has no duplicate, adding one entry equal to
\* an existing entry, at any position, never lowers the risk score.
C10_DuplicateNeverLowersScore ==
    (/\ risk_pc = "compared"
     /\ ~RuleOverlap(parsed_data)) =>
        dup_result.risk_score >= risk_result.risk_score

\* C10 witness: the duplicate switched the title-progression rule off (the
\* copy of a senior title became the last entry) and the overlap rule on.
C10_DuplicateSwitchesProgressionOff ==
    /\ risk_pc = "compared"
    /\ WellTyped(parsed_data)
    /\ ~RuleOverlap(parsed_data) /\ RuleOverlap(dup_data)
    /\ RuleTitleProgression(parsed_data) /\ ~RuleTitleProgression(dup_data)
    /\ dup_result.risk_score > risk_result.risk_score

\* C11: calculate_risk_score never raises; when a rule raises inside the try
\* block (here the comparison of a str total_years_experience with 0), the
\* value returned is exactly (0, ["Error calculating risk score"]).
C11_ErrorGivesZeroAndSentinel ==
    (risk_pc # "input" /\ RiskRaises(parsed_data)) =>
        /\ risk_result.risk_score = 0
        /\ risk_result.issues = <<Issue("Error calculating risk score")>>

\* C11 witness: the exception came after two rules had already added points.
C11_RaisedAfterPointsAdded ==
    /\ risk_pc = "scored"
    /\ RiskRaises(parsed_data)
    /\ RuleMissingInfo(parsed_data) /\ RuleOverlap(parsed_data)
    /\ risk_result.risk_score = 0
    /\ Len(risk_result.issues) = 1

\* The eight rules in the order of the claim, each with its weight and the
\* text of its line.
RuleTable(pd) ==
    << [fired |-> RuleMissingInfo(pd), weight |-> 1, msg |-> "Missing key information"],
       [fired |-> RuleOverlap(pd), weight |-> 2,
        msg |-> "Overlapping roles detected in work history"],
       [fired |-> RuleSkillDensity(pd), weight |-> 1,
        msg |-> "High skill density for experience level"],
       [fired |-> RuleShortStints(pd), weight |-> 2,
        msg |-> "Multiple short job stints detected"],
       [fired |-> RuleTitleProgression(pd), weight |-> 1,
        msg |-> "Inconsistent title progression detected"],
       [fired |-> RuleInsufficientDetail(pd), weight |-> 1,
        msg |-> "Insufficient details in resume"],
       [fired |-> RuleEducationMismatch(pd), weight |-> 1,
        msg |-> "Education level appears mismatched with current role"],
       [fired |-> RuleRapidProgression(pd), weight |-> 1,
        msg |-> "Rapid career progression detected"] >>

RECURSIVE FiredWeight(_, _)
FiredWeight(table, n) ==
    IF n = 0 THEN 0
    ELSE FiredWeight(table, n - 1) + (IF table[n].fired THEN table[n].weight ELSE 0)

RECURSIVE FiredLines(_, _)
FiredLines(table, n) ==
    IF n = 0 THEN <<>>
    ELSE FiredLines(table, n - 1) \o (IF table[n].fired THEN <<table[n].msg>> ELSE <<>>)

\* C23: when no rule raises, risk_score is the sum of the weights
\* (1,2,1,2,1,1,1,1) of exactly the rules that fired, and issues is the
\* risk-level line followed by one line per fired rule, in the order missing
\* info, overlapping roles, skill density, short stints, title progression,
\* insufficient detail, education mismatch, rapid progression.
C23_ScoreIsSumOfFiredWeights ==
    (risk_pc # "input" /\ ~RiskRaises(parsed_data)) =>
        LET table == RuleTable(parsed_data)
        IN  /\ risk_result.risk_score = FiredWeight(table, Len(table))
            /\ risk_result.issues[1].msg = "Risk Level"
            /\ [i \in 1..(Len(risk_result.issues) - 1) |-> risk_result.issues[i + 1].msg]
                   = FiredLines(table, Len(table))

\* C23 witness: a profile on which exactly the overlap, short-stints and
\* rapid-progression rules fire has been scored 5 with three rule lines.
C23_ThreeRulesFired ==
    /\ risk_pc = "scored"
    /\ ~RiskRaises(parsed_data)
    /\ ~RuleMissingInfo(parsed_data) /\ RuleOverlap(parsed_data)
    /\ ~RuleSkillDensity(parsed_data) /\ RuleShortStints(parsed_data)
    /\ ~RuleTitleProgression(parsed_data) /\ ~RuleInsufficientDetail(parsed_data)
    /\ ~RuleEducationMismatch(parsed_data) /\ RuleRapidProgression(parsed_data)
    /\ risk_result.risk_score = 5
    /\ Len(risk_result.issues) = 4

\* ---------------------------------------------------------------------------
\* Claims about OpenAIClient.generate_outreach
\* ---------------------------------------------------------------------------

\* The call is over and no attempt obtained a valid response, although the
\* prompt could be built (the candidate has every field the prompt reads).
GenEveryAttemptFailed ==
    /\ gen_pc \in {"returned", "raised"}
    /\ gen_candidate.has_full_name
    /\ gen_calls >= 1
    /\ AttemptFails(gen_candidate, gen_last)

\* C3: when the external call (or the validation of its response) fails on
\* every attempt, generate_outreach makes exactly 3 attempts and returns the
\* templated fallback built from the candidate; it never raises.
C3_FallbackAfterThreeAttempts ==
    GenEveryAttemptFailed =>
        /\ gen_pc = "returned"
        /\ gen_calls = max_retries
        /\ gen_result = FallbackResponse(gen_candidate)

\* C4: every value generate_outreach returns has an outreach_message and a
\* screening_questions list of exactly 3 entries; a response of any other
\* shape is never returned.
C4_ReturnedValueHasShape ==
    gen_pc = "returned" =>
        /\ gen_result.shape.is_dict
        /\ gen_result.shape.has_msg
        /\ gen_result.shape.has_qs
        /\ gen_result.shape.qs_is_list
        /\ gen_result.shape.n_qs = RequiredQuestions
        /\ (gen_result.src = "llm" => gen_result.shape = gen_last.json[1])

\* C4 witness: the response of an external call has been returned.
C4_ResponseReturned ==
    /\ gen_pc = "returned"
    /\ gen_result.src = "llm"
    /\ gen_calls >= 1
    /\ gen_last.kind = "json"

\* ---------------------------------------------------------------------------
\* Claims about PIIProcessor.anonymize_text
\* ---------------------------------------------------------------------------

\* A detected value is gone from the returned text and its placeholder is there.
Masked(value, placeholder) ==
    value # <<>> =>
        /\ ~Contains(anonymized_text, value)
        /\ Contains(anonymized_text, placeholder)

\* C5: for each of full_name, email, phone and address that the detector
\* returned non-null, the text returned by anonymize_text contains no
\* occurrence of the value and at least one occurrence of its placeholder,
\* also when the values overlap in the text.
C5_EveryDetectedValueMasked ==
    pii_pc = "done" =>
        /\ Masked(pii_data.full_name, NAME)
        /\ Masked(pii_data.email, EMAIL)
        /\ Masked(pii_data.phone, PHONE)
        /\ Masked(pii_data.address, ADDRESS)

AllFourNull(pd) ==
    pd.full_name = <<>> /\ pd.email = <<>> /\ pd.phone = <<>> /\ pd.address = <<>>

\* C7: when the detector returns full_name, email, phone and address all
\* null (also because detection failed), anonymize_text returns the input
\* text unchanged.
C7_NoPiiNoChange ==
    (pii_pc = "done" /\ AllFourNull(pii_data)) => anonymized_text = text

\* C7 witness: the recognizer reported a location that is no detailed address
\* (so a city was extracted) and nothing else was kept.
C7_OnlyCityDetected ==
    /\ pii_pc = "done"
    /\ AllFourNull(pii_data)
    /\ n_results >= 1
    /\ pii_data.location.city # <<>>
    /\ Contains(text, pii_data.location.city)
    /\ anonymized_text = text

\* A field value of the record does not occur in the returned text.
NotInReturnedText(value) == value # <<>> => ~Contains(anonymized_text, value)

\* C25: the text returned by anonymize_text contains no occurrence of any
\* field value of the record extract_pii returned, the city and the state
\* taken from a LOCATION span that is no detailed address included.
C25_NoFieldValueInReturnedText ==
    pii_pc = "done" =>
        /\ NotInReturnedText(pii_data.full_name)
        /\ NotInReturnedText(pii_data.email)
        /\ NotInReturnedText(pii_data.phone)
        /\ NotInReturnedText(pii_data.address)
        /\ NotInReturnedText(pii_data.location.city)
        /\ NotInReturnedText(pii_data.location.state)

\* ---------------------------------------------------------------------------
\* Claims about the chat page
\* ---------------------------------------------------------------------------

\* C1: for any candidate, at most RateLimit (5) outreach requests pass the
\* rate limiter within any window of RateWindow (3600) seconds: of six
\* admitted requests for one candidate, the first and the last are at least a
\* window apart.
C1_AtMostFiveAdmittedPerWindow ==
    \A id \in CandidateIds :
        \A i \in 1..Len(admitted[id]) :
            i + RateLimit <= Len(admitted[id]) =>
                admitted[id][i + RateLimit] - admitted[id][i] >= RateWindow

\* C2: a button press served from the (candidate_id, query) cache, be it the
\* st.cache_data entry or the outreach_cache row, leaves outreach_count and
\* last_outreach_time as they were.
C2_CacheHitLeavesCounters ==
    [][(requests' # requests /\ last_request'.source \in {"st_cache", "outreach_cache"})
         => (outreach_count' = outreach_count /\ last_outreach_time' = last_outreach_time)]_vars

\* C6: no prompt answered by the LLM service, in any interaction, holds the full name, e-mail or
\* phone of a resumes_pii record.
C6_NoStoredPiiInPrompts ==
    \A request \in llm_requests :
        \A id \in CandidateIds :
            {resumes_pii[id].full_name, resumes_pii[id].email, resumes_pii[id].phone}
                \cap request.values = {}

\* C15: after any sequence of queries, current_filters holds the filters
\* extracted from the most recent query and nothing of an earlier query, also
\* when the extraction for the most recent query failed.
C15_FiltersOfMostRecentQuery ==
    (last_query # "" /\ current_filters.set) => current_filters.of = last_query

\* The requests for id that passed the rate limiter in the RateWindow seconds
\* up to now.
AdmittedInWindow(id) ==
    {i \in 1..Len(admitted[id]) : admitted[id][i] >= now - RateWindow}

\* C21: the rate limiter rejects a request for a candidate only when at least
\* RateLimit (5) requests for that candidate were admitted within the
\* RateWindow (3600) seconds before it; older requests do not count.
C21_RejectedOnlyWithFullWindow ==
    [][(requests' # requests /\ last_request'.source = "rejected")
         => Cardinality(AdmittedInWindow(last_request'.candidate)) >= RateLimit]_vars

\* ---------------------------------------------------------------------------
\* Claims about the candidate matcher
\* ---------------------------------------------------------------------------

\* The pipe-delimited tokens of a blob.
RECURSIVE BlobTokens(_, _)
BlobTokens(blob, token) ==
    IF blob = <<>> THEN {token}
    ELSE IF blob[1] = "|" THEN {token} \cup BlobTokens(Tail(blob), <<>>)
    ELSE BlobTokens(Tail(blob), Append(token, blob[1]))

Returned == "r1" \in Range(final_candidates)

NoPostFilter ==
    match_filters.location = <<>> /\ match_filters.experience_years_min.kind = "none"

\* The post-filters as specified: the row's location contains the filter's
\* location, and its years of experience are present and reach the minimum.
PassesLocation ==
    match_filters.location # <<>> =>
        /\ match_row.location # <<>>
        /\ Contains(Lower(match_row.location), Lower(match_filters.location))

PassesExperience ==
    match_filters.experience_years_min.kind = "num" =>
        /\ match_row.total_years_experience.kind = "num"
        /\ match_row.total_years_experience.val >= match_filters.experience_years_min.val

\* C12: with a single keyword shorter than 3 characters and no post-filter,
\* the row is returned if and only if the keyword equals one of the
\* pipe-delimited tokens of its search blob, the first and the last included.
C12_ShortKeywordMatchesExactToken ==
    (/\ match_pc = "done"
     /\ NoPostFilter
     /\ Len(Keywords(match_filters)) = 1
     /\ Len(Keywords(match_filters)[1]) < MinPartialLen) =>
        (Returned <=>
            Keywords(match_filters)[1] \in BlobTokens(Lower(match_row.search_blob), <<>>))

RECURSIVE Extension(_)
Extension(name) ==
    IF name = <<>> THEN <<>>
    ELSE IF name[Len(name)] = "." THEN <<>>
    ELSE IF \E i \in 1..Len(name) : name[i] = "."
    THEN Extension(SubSeq(name, 1, Len(name) - 1)) \o <<FileLowerChar(name[Len(name)])>>
    ELSE <<>>

Unsupported(name) == Extension(name) \notin {<<"p", "d", "f">>, <<"d", "o", "c", "x">>}

NothingStored == resumes = <<>> /\ resumes_pii_rows = <<>>

\* C16: a file whose name ends, in any letter case, in neither .pdf nor .docx
\* makes process_resume_content fail with an error that carries the file
\* name; nothing is anonymized, no LLM call is made and nothing is stored.
C16_UnsupportedFormatFailsFirst ==
    (ing_pc \notin {"off", "start"} /\ Unsupported(file_name)) =>
        /\ ing_pc = "failed"
        /\ ing_error.type = "ValueError"
        /\ ing_error.arg = file_name
        /\ anonymize_calls = 0
        /\ llm_calls = 0
        /\ NothingStored

\* An unsupported name that contains a supported extension has failed.
C16_UnsupportedRejected ==
    /\ ing_pc = "failed"
    /\ file_name = <<"a", ".", "p", "d", "f", ".", "t", "x", "t">>
    /\ ing_error.arg = file_name

\* C18: the profile record built for persistence, and every row stored from
\* it, carries '[NAME]', '[EMAIL]' and '[PHONE]' whatever the extraction
\* returned; the detected values are only in the rows of resumes_pii.
C18_ProfileRecordCarriesPlaceholders ==
    /\ ing_parsed_data.set =>
          /\ ing_parsed_data.personal_info.full_name = "[NAME]"
          /\ ing_parsed_data.personal_info.email = "[EMAIL]"
          /\ ing_parsed_data.personal_info.phone = "[PHONE]"
    /\ \A i \in 1..Len(resumes) :
          /\ resumes[i].parsed_data.personal_info.full_name = "[NAME]"
          /\ resumes[i].parsed_data.personal_info.email = "[EMAIL]"
          /\ resumes[i].parsed_data.personal_info.phone = "[PHONE]"

\* The extraction returned a person's name, e-mail and phone, and the record
\* has been built.
C18_RealValuesExtractedRecordBuilt ==
    /\ ing_parsed_data.set
    /\ structured_data.personal_info.full_name = "Jane Roe"
    /\ structured_data.personal_info.email = "jane@roe.au"
    /\ structured_data.personal_info.phone = "0400 000 000"

HasIssue(issues, msg) == \E i \in 1..Len(issues) : issues[i].msg = msg

\* C22: a profile built by process_resume_content, with summary_statement
\* under additional_info, gets the line "Insufficient details in resume"
\* (and its point) if and only if the summary is absent or shorter than
\* MinSummaryLen (100) characters.
C22_InsufficientDetailFollowsSummary ==
    ing_parsed_data.set =>
        (HasIssue(ing_risk.issues, "Insufficient details in resume")
            <=> ing_parsed_data.additional_info.summary_statement < MinSummaryLen)

\* Characters with a code point below 32, and whitespace characters.
ControlChars == {"\n", "\t", "\f"}

WhitespaceChars == {" ", "\n", "\t", "\f"}

\* C24: the text handed to the anonymizer holds no character with a code
\* point below 32 and no two consecutive whitespace characters.
C24_AnonymizerGetsNormalizedText ==
    anonymize_calls > 0 =>
        /\ \A i \in 1..Len(ing_text) : ing_text[i] \notin ControlChars
        /\ \A i \in 1..(Len(ing_text) - 1) :
              ~(ing_text[i] \in WhitespaceChars /\ ing_text[i + 1] \in WhitespaceChars)

\* ---------------------------------------------------------------------------
\* Claims about the upload page
\* ---------------------------------------------------------------------------

\* The entries of upload_results that carry the name of file i.
EntriesOf(i) == {k \in 1..Len(upload_results) : upload_results[k].name = i}

\* C17: process_bulk_upload returns, for every list of files, exactly one
\* (file name, success flag) entry per file; the flag is False exactly for
\* the files whose processing fails on every attempt.
C17_OneEntryPerUploadedFile ==
    (upload_mode = "bulk" /\ up_pc # "pressed") =>
        /\ up_pc = "returned"
        /\ Len(upload_results) = Len(uploaded_files)
        /\ \A i \in 1..Len(uploaded_files) :
              /\ Cardinality(EntriesOf(i)) = 1
              /\ \A k \in EntriesOf(i) :
                    upload_results[k].success = (uploaded_files[i] # "bad")

\* ---------------------------------------------------------------------------
\* Claims about the resume cache
\* ---------------------------------------------------------------------------

\* C20: get_cached_resume_data reads the table only when the dict has no
\* entry; cache_resume_data writes the dict, and the table when the upsert
\* succeeds; and once this client has cached d under h, the dict holds d and
\* get_cached_resume_data(h) returns d, whether or not the upsert succeeded.
C20_CachedDataReadBack ==
    /\ cache_call.op = "get" =>
          /\ cache_call.durable_read = ~cache_call.local_hit
          /\ client_cached[cache_call.file_hash] # Absent =>
                /\ cache_call.local_hit
                /\ cache_call.returned = client_cached[cache_call.file_hash]
    /\ cache_call.op = "cache" =>
          /\ local_cache[cache_call.file_hash] = cache_call.data
          /\ cache_call.durable_write => resume_cache[cache_call.file_hash] = cache_call.data
    /\ \A h \in FileHashes : client_cached[h] # Absent => local_cache[h] = client_cached[h]

\* d1 was cached under h1 while the table kept d2, and was read back.
C20_ReadBackAfterFailedWrite ==
    /\ cache_call.op = "get"
    /\ cache_call.file_hash = "h1"
    /\ client_cached["h1"] = "d1"
    /\ resume_cache["h1"] = "d2"
    /\ cache_call.returned = "d1"

\* ---------------------------------------------------------------------------
\* Claims about extract_pii over recognizer results
\* ---------------------------------------------------------------------------

\* The processed results that are PERSON spans passing is_valid_name.
ValidPersons ==
    {i \in 1..Len(sp_results) :
        /\ sp_results[i].entity_type = "PERSON"
        /\ is_valid_name(SpanValue(sp_text, sp_results[i]))}

\* C26: whatever the order of the recognizer's results, full_name is the
\* validated PERSON span with the smallest start offset in the text, or null
\* when no PERSON span passes is_valid_name.
C26_FullNameIsFirstInDocument ==
    sp_pc = "done" =>
        IF ValidPersons = {}
        THEN sp_pii_data.full_name = <<>>
        ELSE \E i \in ValidPersons :
                /\ \A j \in ValidPersons : sp_results[i].start <= sp_results[j].start
                /\ sp_pii_data.full_name = SpanValue(sp_text, sp_results[i])

\* The processed results that are LOCATION spans and no detailed address.
PlainLocations ==
    {i \in 1..Len(sp_results) :
        /\ sp_results[i].entity_type = "LOCATION"
        /\ ~is_detailed_address(SpanValue(sp_text, sp_results[i]))}

LastOf(indices) == CHOOSE i \in indices : \A j \in indices : j <= i

\* C30: when the recognizer yields several LOCATION spans that are no
\* detailed addresses, the location of the returned record is exactly the
\* positional decomposition of the last of them: a last span of fewer than
\* three components leaves the country 'Australia', one of a single
\* component leaves the state null, whatever an earlier span provided.
C30_LocationIsLastSpanDecomposed ==
    (sp_pc = "done" /\ Cardinality(PlainLocations) >= 2) =>
        LET parts == SplitParts(SpanValue(sp_text, sp_results[LastOf(PlainLocations)]), <<>>) IN
        /\ sp_pii_data.location.city = Strip(parts[1])
        /\ sp_pii_data.location.state = (IF Len(parts) >= 2 THEN Strip(parts[2]) ELSE <<>>)
        /\ sp_pii_data.location.country = (IF Len(parts) >= 3 THEN Strip(parts[3]) ELSE Australia)

\* C30 witness: a span of three components was followed by a span of one
\* component, and the record returned holds no state and the default country.
C30_LaterSpanResetsStateAndCountry ==
    /\ sp_pc = "done"
    /\ Len(sp_results) = 2
    /\ PlainLocations = {1, 2}
    /\ Len(SplitParts(SpanValue(sp_text, sp_results[1]), <<>>)) = 3
    /\ Len(SplitParts(SpanValue(sp_text, sp_results[2]), <<>>)) = 1
    /\ sp_pii_data.location.state = <<>>
    /\ sp_pii_data.location.country = Australia

\* ---------------------------------------------------------------------------
\* Claims about the outreach cache of SupabaseClient
\* ---------------------------------------------------------------------------

\* The row the last call addressed.
AddressedRow == outreach_cache_table[<<oc_call.candidate_id, QueryHash(oc_call.query)>>]

\* C29: an entry written by cache_outreach_message is returned by
\* get_cached_outreach (when its select succeeds) at every time before the
\* entry's expires_at, and is not returned at any time after it.
C29_EntryServedUntilExpiry ==
    (oc_call.op = "get" /\ ~oc_call.failed /\ AddressedRow.present) =>
        /\ oc_now < AddressedRow.expires_at => oc_call.returned = AddressedRow.outreach_data
        /\ oc_now > AddressedRow.expires_at => oc_call.returned = Absent

====
